---- MODULE Spec2Model ----
(***************************************************************************)
(* IDE-Link-Interceptor: the content script's link rewriting               *)
(* (extension/content.js).  Strings are sequences of one-character         *)
(* strings, so that prefixes, slices and the regular expressions of the    *)
(* source are computed character by character.                             *)
(***************************************************************************)
EXTENDS Integers, Sequences, FiniteSets, TLC

\* JavaScript null / undefined (no string of characters equals it).
NULL == <<"null">>

-----------------------------------------------------------------------------
\* String primitives of JavaScript used by the source.

\* String.prototype.startsWith
StartsWith(s, p) == Len(s) >= Len(p) /\ SubSeq(s, 1, Len(p)) = p

\* String.prototype.endsWith
EndsWith(s, p) == Len(s) >= Len(p) /\ SubSeq(s, Len(s) - Len(p) + 1, Len(s)) = p

\* String.prototype.includes
Includes(s, p) == \E i \in 1..(Len(s) - Len(p) + 1) : SubSeq(s, i, i + Len(p) - 1) = p

\* String.prototype.slice(n), n counted from 0
Slice(s, n) == SubSeq(s, n + 1, Len(s))

\* Index (from 1) of the first character of s at or after position from that
\* lies in the set cs; Len(s) + 1 when there is none.
FirstOf(s, cs, from) ==
  LET hits == {i \in from..Len(s) : s[i] \in cs}
  IN IF hits = {} THEN Len(s) + 1 ELSE CHOOSE i \in hits : \A j \in hits : i <= j

\* String.prototype.indexOf(c) for a character c, counted from 0; -1 if absent.
IndexOf(s, c) == IF FirstOf(s, {c}, 1) > Len(s) THEN -1 ELSE FirstOf(s, {c}, 1) - 1

\* String.prototype.lastIndexOf(c) for a character c, counted from 0; -1 if absent.
LastIndexOf(s, c) ==
  LET hits == {i \in 1..Len(s) : s[i] = c}
  IN IF hits = {} THEN -1 ELSE (CHOOSE i \in hits : \A j \in hits : i >= j) - 1

\* String.prototype.toLowerCase on ASCII.
LowerChar(c) ==
  CASE c = "A" -> "a" [] c = "B" -> "b" [] c = "C" -> "c" [] c = "D" -> "d"
    [] c = "E" -> "e" [] c = "F" -> "f" [] c = "G" -> "g" [] c = "H" -> "h"
    [] c = "I" -> "i" [] c = "J" -> "j" [] c = "K" -> "k" [] c = "L" -> "l"
    [] c = "M" -> "m" [] c = "N" -> "n" [] c = "O" -> "o" [] c = "P" -> "p"
    [] c = "Q" -> "q" [] c = "R" -> "r" [] c = "S" -> "s" [] c = "T" -> "t"
    [] c = "U" -> "u" [] c = "V" -> "v" [] c = "W" -> "w" [] c = "X" -> "x"
    [] c = "Y" -> "y" [] c = "Z" -> "z"
    [] OTHER -> c

ToLowerCase(s) == [i \in 1..Len(s) |-> LowerChar(s[i])]

-----------------------------------------------------------------------------
\* Constants of the content script.

DEFAULT_PROTOCOL == <<"a", "n", "t", "i", "g", "r", "a", "v", "i", "t", "y">>

SUPPORTED_PROTOCOLS ==
  { <<"v", "s", "c", "o", "d", "e">>, <<"v", "s", "c", "o", "d", "e", "-", "i", "n", "s", "i", "d", "e", "r", "s">>, <<"a", "n", "t", "i", "g", "r", "a", "v", "i", "t", "y">>, <<"c", "u", "r", "s", "o", "r">>, <<"w", "i", "n", "d", "s", "u", "r", "f">> }

VSCODE_PROTOCOLS ==
  << <<"v", "s", "c", "o", "d", "e", ":">>, <<"v", "s", "c", "o", "d", "e", "-", "i", "n", "s", "i", "d", "e", "r", "s", ":">>, <<"a", "n", "t", "i", "g", "r", "a", "v", "i", "t", "y", ":">>, <<"c", "u", "r", "s", "o", "r", ":">>,
     <<"w", "i", "n", "d", "s", "u", "r", "f", ":">>, <<"v", "s", "c", "o", "d", "i", "u", "m", ":">> >>

VSCODE_DEV_REDIRECT_PATTERNS == { <<"v", "s", "c", "o", "d", "e", ".", "d", "e", "v", "/", "r", "e", "d", "i", "r", "e", "c", "t">>, <<"i", "n", "s", "i", "d", "e", "r", "s", ".", "v", "s", "c", "o", "d", "e", ".", "d", "e", "v", "/", "r", "e", "d", "i", "r", "e", "c", "t">> }

VSCODE_EXTENSION_SCHEMES == { <<"v", "s", "c", "o", "d", "e">>, <<"v", "s", "c", "o", "d", "e", "-", "i", "n", "s", "i", "d", "e", "r", "s">> }

\* MCP_REPO_MAP[name], NULL (undefined) for a name that is not a key.
MCP_REPO_MAP(name) ==
  IF name \in { <<"h", "u", "g", "g", "i", "n", "g", "f", "a", "c", "e">>, <<"h", "f", "-", "m", "c", "p", "-", "s", "e", "r", "v", "e", "r">> }
  THEN <<"h", "t", "t", "p", "s", ":", "/", "/", "g", "i", "t", "h", "u", "b", ".", "c", "o", "m", "/", "h", "u", "g", "g", "i", "n", "g", "f", "a", "c", "e", "/", "h", "f", "-", "m", "c", "p", "-", "s", "e", "r", "v", "e", "r">>
  ELSE NULL

-----------------------------------------------------------------------------
\* isAuthCallbackUrl (content.js 52-57).

\* url.match(/^([^:]+):\/\/([^/]+)\//)?.[2], NULL when the pattern fails.
AuthMatchAuthority(url) ==
  LET c == FirstOf(url, {":"}, 1)
      h == c + 3
      e == FirstOf(url, {"/"}, h)
  IN IF /\ c > 1 /\ c <= Len(url)
        /\ StartsWith(Slice(url, c), <<"/", "/">>)
        /\ e > h /\ e <= Len(url)
     THEN SubSeq(url, h, e - 1)
     ELSE NULL

\* url.match(/^([^:]+):([^/]+)\//)?.[2], NULL when the pattern fails.
AuthMatchBare(url) ==
  LET c == FirstOf(url, {":"}, 1)
      h == c + 1
      e == FirstOf(url, {"/"}, h)
  IN IF c > 1 /\ c <= Len(url) /\ e > h /\ e <= Len(url)
     THEN SubSeq(url, h, e - 1)
     ELSE NULL

isAuthCallbackUrl(url) ==
  IF url = NULL \/ url = <<>> THEN FALSE
  ELSE LET m1 == AuthMatchAuthority(url)
           m2 == AuthMatchBare(url)
           g2 == IF m1 # NULL THEN m1 ELSE m2
           provider == IF g2 = NULL THEN <<>> ELSE ToLowerCase(g2)
       IN Includes(provider, <<"a", "u", "t", "h", "e", "n", "t", "i", "c", "a", "t", "i", "o", "n">>)

\* A prefix of one shape for every target.
getProtocolPrefix_BareColon(t) == t \o <<":">>

\* getProtocolPrefix (content.js 64-66), with targetProtocol = t.
getProtocolPrefix(t) ==
  IF t = <<"a", "n", "t", "i", "g", "r", "a", "v", "i", "t", "y">> THEN t \o <<":", "/", "/">> ELSE t \o <<":">>

-----------------------------------------------------------------------------
\* Classification predicates.

\* VSCODE_PROTOCOLS.some(protocol => url.startsWith(protocol))
isVSCodeUrl(url) ==
  IF url = NULL \/ url = <<>> THEN FALSE
  ELSE \E i \in 1..Len(VSCODE_PROTOCOLS) : StartsWith(url, VSCODE_PROTOCOLS[i])

isVSCodeDevRedirectUrl(url) ==
  IF url = NULL \/ url = <<>> THEN FALSE
  ELSE \E p \in VSCODE_DEV_REDIRECT_PATTERNS : Includes(url, p)

\* /^(vscode|vscode-insiders):mcp\//.test(url)
isMcpUrl(url) ==
  IF url = NULL \/ url = <<>> THEN FALSE
  ELSE StartsWith(url, <<"v", "s", "c", "o", "d", "e", ":", "m", "c", "p", "/">>) \/ StartsWith(url, <<"v", "s", "c", "o", "d", "e", "-", "i", "n", "s", "i", "d", "e", "r", "s", ":", "m", "c", "p", "/">>)

\* The longest prefix of s made of characters outside cs: a greedy [^cs]* .
RunOutside(s, cs) == SubSeq(s, 1, FirstOf(s, cs, 1) - 1)

\* The pattern without its optional "//".
parseVSCodeExtensionId_ColonOnly(url) ==
  LET c  == FirstOf(url, {":"}, 1)
      id == RunOutside(Slice(Slice(url, c), Len(<<"e", "x", "t", "e", "n", "s", "i", "o", "n", "/">>)), {"?", "#"})
  IN IF /\ c > 1 /\ c <= Len(url)
        /\ StartsWith(Slice(url, c), <<"e", "x", "t", "e", "n", "s", "i", "o", "n", "/">>)
        /\ id # <<>>
        /\ SubSeq(url, 1, c - 1) \in VSCODE_EXTENSION_SCHEMES
     THEN id
     ELSE NULL

\* parseVSCodeExtensionId: /^([^:]+):(\/\/)?extension\/([^?#]+)/
parseVSCodeExtensionId(url) ==
  LET c      == FirstOf(url, {":"}, 1)
      scheme == SubSeq(url, 1, c - 1)
      rest   == Slice(url, c)
      body   == IF StartsWith(rest, <<"/", "/">>) THEN Slice(rest, 2) ELSE rest
      id     == RunOutside(Slice(body, Len(<<"e", "x", "t", "e", "n", "s", "i", "o", "n", "/">>)), {"?", "#"})
  IN IF /\ c > 1 /\ c <= Len(url)
        /\ StartsWith(body, <<"e", "x", "t", "e", "n", "s", "i", "o", "n", "/">>)
        /\ id # <<>>
        /\ scheme \in VSCODE_EXTENSION_SCHEMES
     THEN id
     ELSE NULL

-----------------------------------------------------------------------------
\* new URL(url): the WHATWG parser on the links of the model (printable ASCII
\* without whitespace, credentials, ports, backslashes or dot segments).

Letters ==
  { "a", "b", "c", "d", "e", "f", "g", "h", "i", "j", "k", "l", "m",
    "n", "o", "p", "q", "r", "s", "t", "u", "v", "w", "x", "y", "z",
    "A", "B", "C", "D", "E", "F", "G", "H", "I", "J", "K", "L", "M",
    "N", "O", "P", "Q", "R", "S", "T", "U", "V", "W", "X", "Y", "Z" }

Digits == { "0", "1", "2", "3", "4", "5", "6", "7", "8", "9" }

\* A scheme is a letter followed by letters, digits, "+", "-" or "." .
IsScheme(s) ==
  /\ s # <<>>
  /\ s[1] \in Letters
  /\ \A i \in 1..Len(s) : s[i] \in Letters \cup Digits \cup {"+", "-", "."}

SpecialSchemes == { <<"h", "t", "t", "p">>, <<"h", "t", "t", "p", "s">> }

RECURSIVE StripSlashes(_)
StripSlashes(s) == IF s # <<>> /\ s[1] = "/" THEN StripSlashes(Tail(s)) ELSE s

\* [ok, protocol, hostname, pathname, search]; ok = FALSE is the TypeError that
\* new URL throws (no scheme and no base, a special scheme without host, or a
\* host with a forbidden code point).
URLFailure == [ok |-> FALSE, protocol |-> <<>>, hostname |-> <<>>, pathname |-> <<>>, search |-> <<>>]

URLRecord(scheme, hostname, pathname, query) ==
  [ok |-> TRUE, protocol |-> scheme \o <<":">>, hostname |-> hostname, pathname |-> pathname,
   search |-> IF Len(query) <= 1 THEN <<>> ELSE query]

\* Forbidden host code points of the link alphabet: a host that holds one
\* (and is not an IPv6 literal, which no link of the model is) is a failure.
ForbiddenHostChars == {"<", ">", "[", "]", "^", "|"}

\* The authority and the path that follow the slashes: the host ends at the
\* first "/"; a special scheme needs a host, has it in lower case, and has the
\* path "/" when none is written.
ParseAuthority(scheme, special, host, path, query) ==
  IF special /\ host = <<>> THEN URLFailure
  ELSE IF \E i \in 1..Len(host) : host[i] \in ForbiddenHostChars THEN URLFailure
  ELSE URLRecord(scheme,
                 IF special THEN ToLowerCase(host) ELSE host,
                 IF special /\ path = <<>> THEN <<"/">> ELSE path,
                 query)

AfterSlashes(scheme, special, afterSl, query) ==
  ParseAuthority(scheme, special, RunOutside(afterSl, {"/"}),
                 Slice(afterSl, Len(RunOutside(afterSl, {"/"}))), query)

\* hier is what lies between the scheme and the query.  Special schemes skip
\* every leading slash; the others have an authority after exactly "//" and an
\* opaque path otherwise.
ParseHier(scheme, hier, query) ==
  IF scheme \in SpecialSchemes THEN AfterSlashes(scheme, TRUE, StripSlashes(hier), query)
  ELSE IF StartsWith(hier, <<"/", "/">>) THEN AfterSlashes(scheme, FALSE, Slice(hier, 2), query)
  ELSE URLRecord(scheme, <<>>, hier, query)

\* noFrag is what follows the scheme's colon, up to the fragment.
ParseAfterScheme(scheme, noFrag) ==
  ParseHier(scheme, RunOutside(noFrag, {"?"}), Slice(noFrag, Len(RunOutside(noFrag, {"?"}))))

ParseURL(url) ==
  IF FirstOf(url, {":"}, 1) > Len(url) \/ ~IsScheme(RunOutside(url, {":"})) THEN URLFailure
  ELSE ParseAfterScheme(ToLowerCase(RunOutside(url, {":"})),
                        RunOutside(Slice(url, FirstOf(url, {":"}, 1)), {"#"}))

\* String.prototype.split(c) for a one-character separator.
RECURSIVE Split(_, _)
Split(s, c) ==
  LET i == FirstOf(s, {c}, 1)
  IN IF i > Len(s) THEN <<s>> ELSE <<SubSeq(s, 1, i - 1)>> \o Split(Slice(s, i), c)

\* Percent codes of the characters of the link alphabet.
HexDigits == Digits \cup {"a", "b", "c", "d", "e", "f", "A", "B", "C", "D", "E", "F"}

UpperHex(c) ==
  CASE c = "a" -> "A" [] c = "b" -> "B" [] c = "c" -> "C" [] c = "d" -> "D"
    [] c = "e" -> "E" [] c = "f" -> "F" [] OTHER -> c

\* The character whose code is the two hex digits h1 h2.
CodeChar(h1, h2) ==
  LET code == <<UpperHex(h1), UpperHex(h2)>>
  IN CASE code = <<"3", "A">> -> ":" [] code = <<"2", "F">> -> "/" [] code = <<"3", "F">> -> "?"
       [] code = <<"2", "3">> -> "#" [] code = <<"3", "D">> -> "=" [] code = <<"2", "6">> -> "&"
       [] code = <<"2", "5">> -> "%" [] code = <<"2", "B">> -> "+" [] code = <<"2", "0">> -> " "
       [] code = <<"2", "E">> -> "." [] code = <<"2", "D">> -> "-" [] code = <<"6", "1">> -> "a"
       [] OTHER -> "other"

\* A serialisation that escapes nothing.
FormEncodeChar_Raw(c) == <<c>>

\* application/x-www-form-urlencoded serialisation of one character
\* (URLSearchParams.prototype.toString).
FormEncodeChar(c) ==
  CASE c = ":" -> <<"%", "3", "A">> [] c = "/" -> <<"%", "2", "F">> [] c = "?" -> <<"%", "3", "F">>
    [] c = "#" -> <<"%", "2", "3">> [] c = "=" -> <<"%", "3", "D">> [] c = "&" -> <<"%", "2", "6">>
    [] c = "%" -> <<"%", "2", "5">> [] c = "+" -> <<"%", "2", "B">> [] c = " " -> <<"+">>
    [] OTHER -> <<c>>

\* The serialisation of a string: that of its characters, one after the other.
RECURSIVE FormEncode(_)
FormEncode(s) ==
  IF s = <<>> THEN <<>>
  ELSE IF Len(s) = 1 THEN FormEncodeChar(s[1])
  ELSE FormEncode(SubSeq(s, 1, Len(s) \div 2)) \o FormEncode(SubSeq(s, Len(s) \div 2 + 1, Len(s)))

\* Position i of s starts a percent code: "%" and two hex digits.  The digits
\* are not "%", so two codes never overlap.
IsCode(s, i) == s[i] = "%" /\ i + 2 <= Len(s) /\ s[i + 1] \in HexDigits /\ s[i + 2] \in HexDigits

\* Position i of s is one of the two digits of a percent code.
InCode(s, i) == (i > 1 /\ IsCode(s, i - 1)) \/ (i > 2 /\ IsCode(s, i - 2))

\* The positions of s that are not digits of a percent code, in order.
Kept(s) == SelectSeq([i \in 1..Len(s) |-> i], LAMBDA i : ~InCode(s, i))

DecodeAt(s, kept) ==
  [j \in 1..Len(kept) |->
     IF IsCode(s, kept[j]) THEN CodeChar(s[kept[j] + 1], s[kept[j] + 2]) ELSE s[kept[j]]]

\* Percent-decoding of the URL standard: a "%" that two hex digits do not
\* follow is kept as it is.
PercentDecode(s) == DecodeAt(s, Kept(s))

\* Decoding of one name or value of a query: "+" is a space, then percent-decoding.
FormDecode(s) == PercentDecode([i \in 1..Len(s) |-> IF s[i] = "+" THEN " " ELSE s[i]])

\* The name and the value of one "name=value" pair of a query, decoded.
PairName(p) == FormDecode(RunOutside(p, {"="}))

PairValue(p) == FormDecode(Slice(p, Len(RunOutside(p, {"="})) + 1))

\* The index of the first pair of that name; 0 when there is none.
FirstPair(pairs, name) ==
  IF \E i \in 1..Len(pairs) : pairs[i] # <<>> /\ PairName(pairs[i]) = name
  THEN CHOOSE i \in 1..Len(pairs) :
         /\ pairs[i] # <<>> /\ PairName(pairs[i]) = name
         /\ \A j \in 1..(i - 1) : pairs[j] = <<>> \/ PairName(pairs[j]) # name
  ELSE 0

PairAt(pairs, i) == IF i = 0 THEN NULL ELSE PairValue(pairs[i])

PairsGet(pairs, name) == PairAt(pairs, FirstPair(pairs, name))

\* urlObj.searchParams.get(name): the value of the first pair with that name,
\* NULL when there is none.
SearchParamsGet(search, name) ==
  IF search = <<>> THEN NULL ELSE PairsGet(Split(Slice(search, 1), "&"), name)

\* decodeURIComponent throws a URIError on a "%" that two hex digits do not follow.
DecodeThrows(s) == \E i \in 1..Len(s) : s[i] = "%" /\ ~IsCode(s, i)

\* decodeURIComponent(s) when it does not throw.
decodeURIComponent(s) == PercentDecode(s)

-----------------------------------------------------------------------------
\* MCP links.

\* [^/]+ "/" ([^/?#]+) at the start of s: the group, <<>> when there is no match.
OwnerAndName(owner, rest) ==
  IF owner # <<>> /\ StartsWith(rest, <<"/">>) THEN RunOutside(Slice(rest, 1), {"/", "?", "#"})
  ELSE <<>>

ServersName(s) == OwnerAndName(RunOutside(s, {"/"}), Slice(s, Len(RunOutside(s, {"/"}))))

\* The group of /.*\/servers\/[^/]+\/([^/?#]+)/ on tail, when position k is
\* where "/servers/" matches; <<>> when the pattern fails there.
ServersAt(tail, k) ==
  IF StartsWith(Slice(tail, k - 1), <<"/", "s", "e", "r", "v", "e", "r", "s", "/">>)
  THEN ServersName(Slice(tail, k - 1 + Len(<<"/", "s", "e", "r", "v", "e", "r", "s", "/">>)))
  ELSE <<>>

\* The greedy .* takes the last position where the pattern matches.
ApiMatch(tail) ==
  IF \E k \in 1..Len(tail) : ServersAt(tail, k) # <<>>
  THEN ServersAt(tail, CHOOSE k \in 1..Len(tail) :
                         /\ ServersAt(tail, k) # <<>>
                         /\ \A j \in (k + 1)..Len(tail) : ServersAt(tail, j) = <<>>)
  ELSE NULL

\* afterMcp is what follows "mcp/".
\* byNameMatch: /^(vscode|vscode-insiders):mcp\/by-name\/([^/?#]+)/
\* apiMatch:    /^(vscode|vscode-insiders):mcp\/api\.mcp\.github\.com.*\/servers\/[^/]+\/([^/?#]+)/
McpServerName(afterMcp) ==
  IF /\ StartsWith(afterMcp, <<"b", "y", "-", "n", "a", "m", "e", "/">>)
     /\ RunOutside(Slice(afterMcp, Len(<<"b", "y", "-", "n", "a", "m", "e", "/">>)), {"/", "?", "#"}) # <<>>
  THEN RunOutside(Slice(afterMcp, Len(<<"b", "y", "-", "n", "a", "m", "e", "/">>)), {"/", "?", "#"})
  ELSE IF StartsWith(afterMcp, <<"a", "p", "i", ".", "m", "c", "p", ".", "g", "i", "t", "h", "u", "b", ".", "c", "o", "m">>)
    THEN ApiMatch(Slice(afterMcp, Len(<<"a", "p", "i", ".", "m", "c", "p", ".", "g", "i", "t", "h", "u", "b", ".", "c", "o", "m">>)))
    ELSE NULL

\* extractMcpServerName (content.js 149-169).
extractMcpServerName(url) ==
  IF ~isMcpUrl(url) THEN NULL
  ELSE McpServerName(Slice(url, FirstOf(url, {":"}, 1) + Len(<<"m", "c", "p", "/">>)))

-----------------------------------------------------------------------------
\* VSIX download links.

\* The path tests of isVsixUrl on the segments seg of the lower-case pathname.

\* /^\/api\/[^/]+\/[^/]+\/[^/]+\/file/
OpenVsxPath(seg) ==
  /\ Len(seg) >= 6 /\ seg[1] = <<>> /\ seg[2] = <<"a", "p", "i">>
  /\ seg[3] # <<>> /\ seg[4] # <<>> /\ seg[5] # <<>>
  /\ StartsWith(seg[6], <<"f", "i", "l", "e">>)

\* /^\/_apis\/public\/gallery\/publisher\/[^/]+\/extension\/[^/]+\/[^/]+\/assetbyname\//
VsAssetsPath(seg) ==
  /\ Len(seg) >= 11 /\ seg[1] = <<>> /\ seg[2] = <<"_", "a", "p", "i", "s">> /\ seg[3] = <<"p", "u", "b", "l", "i", "c">>
  /\ seg[4] = <<"g", "a", "l", "l", "e", "r", "y">> /\ seg[5] = <<"p", "u", "b", "l", "i", "s", "h", "e", "r">> /\ seg[6] # <<>>
  /\ seg[7] = <<"e", "x", "t", "e", "n", "s", "i", "o", "n">> /\ seg[8] # <<>> /\ seg[9] # <<>>
  /\ seg[10] = <<"a", "s", "s", "e", "t", "b", "y", "n", "a", "m", "e">>

\* /^\/_apis\/public\/gallery\/publishers\/[^/]+\/vsextensions\/[^/]+\/[^/]+\/vspackage$/
MarketplacePath(seg) ==
  /\ Len(seg) = 10 /\ seg[1] = <<>> /\ seg[2] = <<"_", "a", "p", "i", "s">> /\ seg[3] = <<"p", "u", "b", "l", "i", "c">>
  /\ seg[4] = <<"g", "a", "l", "l", "e", "r", "y">> /\ seg[5] = <<"p", "u", "b", "l", "i", "s", "h", "e", "r", "s">> /\ seg[6] # <<>>
  /\ seg[7] = <<"v", "s", "e", "x", "t", "e", "n", "s", "i", "o", "n", "s">> /\ seg[8] # <<>> /\ seg[9] # <<>>
  /\ seg[10] = <<"v", "s", "p", "a", "c", "k", "a", "g", "e">>

\* /^\/[^/]+\/[^/]+\/releases\/download\/[^/]+\/.+\.vsix$/
GithubReleasePath(seg, pathname) ==
  /\ Len(seg) >= 7 /\ seg[1] = <<>> /\ seg[2] # <<>> /\ seg[3] # <<>>
  /\ seg[4] = <<"r", "e", "l", "e", "a", "s", "e", "s">> /\ seg[5] = <<"d", "o", "w", "n", "l", "o", "a", "d">> /\ seg[6] # <<>>
  /\ EndsWith(pathname, <<".", "v", "s", "i", "x">>)
  /\ Len(pathname) - Len(<<".", "v", "s", "i", "x">>) >
       6 + Len(seg[2]) + Len(seg[3]) + Len(seg[4]) + Len(seg[5]) + Len(seg[6])

\* isVsixUrl after the protocol test, on the lower-case hostname and pathname.
VsixShape(hostname, pathname, seg) ==
  IF EndsWith(pathname, <<".", "v", "s", "i", "x">>) THEN TRUE
  ELSE IF /\ hostname = <<"o", "p", "e", "n", "-", "v", "s", "x", ".", "o", "r", "g">> \/ EndsWith(hostname, <<".", "o", "p", "e", "n", "-", "v", "s", "x", ".", "o", "r", "g">>)
          /\ OpenVsxPath(seg)
    THEN TRUE
  ELSE IF EndsWith(hostname, <<".", "g", "a", "l", "l", "e", "r", "y", ".", "v", "s", "a", "s", "s", "e", "t", "s", ".", "i", "o">>) /\ VsAssetsPath(seg) THEN TRUE
  ELSE IF hostname = <<"m", "a", "r", "k", "e", "t", "p", "l", "a", "c", "e", ".", "v", "i", "s", "u", "a", "l", "s", "t", "u", "d", "i", "o", ".", "c", "o", "m">> /\ MarketplacePath(seg) THEN TRUE
  ELSE IF hostname = <<"g", "i", "t", "h", "u", "b", ".", "c", "o", "m">> /\ GithubReleasePath(seg, pathname) THEN TRUE
  ELSE FALSE

VsixTest(u) ==
  IF ~u.ok THEN FALSE
  ELSE IF u.protocol # <<"h", "t", "t", "p", ":">> /\ u.protocol # <<"h", "t", "t", "p", "s", ":">> THEN FALSE
  ELSE VsixShape(ToLowerCase(u.hostname), ToLowerCase(u.pathname),
                 Split(ToLowerCase(u.pathname), "/"))

\* isVsixUrl (content.js 174-209).
isVsixUrl(url) == VsixTest(ParseURL(url))

\* What parseExtensionFromVsixUrl returns: an object (a field that is undefined
\* is NULL), or null, which is NoExtInfo.
ExtInfo(p, n, v) == [found |-> TRUE, publisher |-> p, name |-> n, version |-> v]

NoExtInfo == [found |-> FALSE, publisher |-> NULL, name |-> NULL, version |-> NULL]

\* content.js 250-257: the split of namePart at its first ".".
SplitNamePart(namePart, version, dotIndex) ==
  IF dotIndex > 0
  THEN ExtInfo(SubSeq(namePart, 1, dotIndex), Slice(namePart, dotIndex + 1),
               IF version = NULL \/ version = <<>> THEN NULL ELSE version)
  ELSE NoExtInfo

\* content.js 246-249: the split of baseName at its last "-".
SplitBaseName(baseName, lastDash) ==
  IF lastDash > 0
  THEN SplitNamePart(SubSeq(baseName, 1, lastDash), Slice(baseName, lastDash + 1),
                     IndexOf(SubSeq(baseName, 1, lastDash), "."))
  ELSE SplitNamePart(baseName, NULL, IndexOf(baseName, "."))

BaseNameOf(baseName) == SplitBaseName(baseName, LastIndexOf(baseName, "-"))

\* The filename branch of parseExtensionFromVsixUrl (content.js 242-259):
\* /^(.+)\.vsix$/i on the last segment of the path.
ParseVsixFilename(filename) ==
  IF /\ filename # <<>>
     /\ EndsWith(ToLowerCase(filename), <<".", "v", "s", "i", "x">>)
     /\ Len(filename) > Len(<<".", "v", "s", "i", "x">>)
  THEN BaseNameOf(SubSeq(filename, 1, Len(filename) - Len(<<".", "v", "s", "i", "x">>)))
  ELSE NoExtInfo

\* /^\/_apis\/public\/gallery\/publisher\/([^/]+)\/extension\/([^/]+)\/([^/]+)\/assetbyname\/.+$/
\* on the segments of the pathname as written: something follows "assetbyname/".
VsAssetsInfoPath(seg) ==
  /\ VsAssetsPath(seg)
  /\ Len(seg) > 11 \/ seg[11] # <<>>

\* /^\/api\/([^/]+)\/([^/]+)\/([^/]+)\/file(?:\/([^/]+))?$/
OpenVsxInfoPath(seg) ==
  /\ Len(seg) \in {6, 7} /\ seg[1] = <<>> /\ seg[2] = <<"a", "p", "i">>
  /\ seg[3] # <<>> /\ seg[4] # <<>> /\ seg[5] # <<>> /\ seg[6] = <<"f", "i", "l", "e">>
  /\ Len(seg) = 7 => seg[7] # <<>>

\* The information taken from the filename alone.
VsixInfo_FilenameOnly(hostname, seg) == ParseVsixFilename(seg[Len(seg)])

\* parseExtensionFromVsixUrl on the lower-case hostname and the segments of
\* the pathname as written.
VsixInfo(hostname, seg) ==
  IF EndsWith(hostname, <<".", "g", "a", "l", "l", "e", "r", "y", ".", "v", "s", "a", "s", "s", "e", "t", "s", ".", "i", "o">>) /\ VsAssetsInfoPath(seg)
    THEN ExtInfo(seg[6], seg[8], seg[9])
  ELSE IF hostname = <<"m", "a", "r", "k", "e", "t", "p", "l", "a", "c", "e", ".", "v", "i", "s", "u", "a", "l", "s", "t", "u", "d", "i", "o", ".", "c", "o", "m">> /\ MarketplacePath(seg)
    THEN ExtInfo(seg[6], seg[8], seg[9])
  ELSE IF OpenVsxInfoPath(seg) THEN ExtInfo(seg[3], seg[4], seg[5])
  ELSE ParseVsixFilename(seg[Len(seg)])

VsixInfoOf(u) ==
  IF ~u.ok THEN NoExtInfo ELSE VsixInfo(ToLowerCase(u.hostname), Split(u.pathname, "/"))

\* parseExtensionFromVsixUrl (content.js 214-265).
parseExtensionFromVsixUrl(url) == VsixInfoOf(ParseURL(url))

\* buildVsixInstallUrl (content.js 270-279): URLSearchParams keeps the
\* parameters in the order url, name, version and serialises them form-encoded.
buildVsixInstallUrl(protocol, vsixUrl, extInfo) ==
  LET hasName    == /\ extInfo.found
                    /\ extInfo.publisher # NULL /\ extInfo.publisher # <<>>
                    /\ extInfo.name # NULL /\ extInfo.name # <<>>
      hasVersion == extInfo.found /\ extInfo.version # NULL /\ extInfo.version # <<>>
      params     == <<"u", "r", "l", "=">> \o FormEncode(vsixUrl)
                    \o (IF hasName
                        THEN <<"&", "n", "a", "m", "e", "=">> \o FormEncode(extInfo.publisher \o <<".">> \o extInfo.name)
                        ELSE <<>>)
                    \o (IF hasVersion THEN <<"&", "v", "e", "r", "s", "i", "o", "n", "=">> \o FormEncode(extInfo.version) ELSE <<>>)
  IN protocol \o <<":", "/", "/", "e", "x", "t", "e", "n", "s", "i", "o", "n", "/", "i", "n", "s", "t", "a", "l", "l", "?">> \o params

-----------------------------------------------------------------------------
\* Prefix replacement.

\* The first protocol of VSCODE_PROTOCOLS that url starts with; 0 when none.
FirstProtocol(url) ==
  IF \E i \in 1..Len(VSCODE_PROTOCOLS) : StartsWith(url, VSCODE_PROTOCOLS[i])
  THEN CHOOSE i \in 1..Len(VSCODE_PROTOCOLS) :
         /\ StartsWith(url, VSCODE_PROTOCOLS[i])
         /\ \A j \in 1..(i - 1) : ~StartsWith(url, VSCODE_PROTOCOLS[j])
  ELSE 0

\* `${getProtocolPrefix()}${url.slice(protocol.length)}` for protocol i; url
\* itself when no protocol matched.
ReplaceAt(url, t, i) ==
  IF i = 0 THEN url ELSE getProtocolPrefix(t) \o Slice(url, Len(VSCODE_PROTOCOLS[i]))

\* The loop "for (const protocol of VSCODE_PROTOCOLS) if (url.startsWith(protocol))
\* return ...", followed by "return url".
ReplacePrefix(url, t) == ReplaceAt(url, t, FirstProtocol(url))

\* The conversion without its test for the target's own scheme.
convertToTargetUrl_NoTargetCheck(url, t) ==
  IF isAuthCallbackUrl(url) THEN url ELSE ReplacePrefix(url, t)

\* convertToTargetUrl (content.js 345-364), with targetProtocol = t.
convertToTargetUrl(url, t) ==
  IF isAuthCallbackUrl(url) THEN url
  ELSE IF StartsWith(url, t \o <<":">>) \/ StartsWith(url, t \o <<":", "/", "/">>) THEN url
  ELSE ReplacePrefix(url, t)

\* String.prototype.replace(p, "") : the first occurrence of p removed.
RemoveAt(s, p, i) == IF i = 0 THEN s ELSE SubSeq(s, 1, i - 1) \o Slice(s, i - 1 + Len(p))

FirstOccurrence(s, p) ==
  IF Includes(s, p)
  THEN CHOOSE i \in 1..Len(s) :
         /\ StartsWith(Slice(s, i - 1), p)
         /\ \A j \in 1..(i - 1) : ~StartsWith(Slice(s, j - 1), p)
  ELSE 0

RemoveFirst(s, p) == RemoveAt(s, p, FirstOccurrence(s, p))

StripLeadingSlash(path) == IF StartsWith(path, <<"/">>) THEN Slice(path, 1) ELSE path

\* The decoded url parameter as it is.
RewriteDecoded_Unchanged(decodedUrl, t) == decodedUrl

\* content.js 315-327: the decoded url parameter.  The loop over
\* VSCODE_PROTOCOLS runs before the test for the target protocol, whose two
\* outcomes both return decodedUrl.
RewriteDecoded(decodedUrl, t) ==
  IF isAuthCallbackUrl(decodedUrl) THEN decodedUrl ELSE ReplacePrefix(decodedUrl, t)

\* content.js 303-335 on the parsed URL and its url parameter.
RedirectTarget(u, urlParam, t) ==
  IF urlParam # NULL /\ urlParam # <<>>
  THEN IF DecodeThrows(urlParam) THEN NULL
       ELSE RewriteDecoded(decodeURIComponent(urlParam), t)
  ELSE getProtocolPrefix(t) \o StripLeadingSlash(RemoveFirst(u.pathname, <<"/", "r", "e", "d", "i", "r", "e", "c", "t">>))
         \o u.search

RedirectOf(u, t) ==
  IF ~u.ok THEN NULL ELSE RedirectTarget(u, SearchParamsGet(u.search, <<"u", "r", "l">>), t)

\* convertVSCodeDevToProtocol (content.js 298-340), with targetProtocol = t;
\* NULL is the null of the catch block (new URL or decodeURIComponent threw).
convertVSCodeDevToProtocol(url, t) == RedirectOf(ParseURL(url), t)

-----------------------------------------------------------------------------
\* The links that are clicked.

\* Longest generated tail of a link.
MaxTailLen == 1

TailAlphabet == {"a", "/", "?"}

RECURSIVE SeqsUpTo(_, _)
SeqsUpTo(cs, n) ==
  IF n = 0 THEN {<<>>}
  ELSE SeqsUpTo(cs, n - 1) \cup
       {Append(s, c) : s \in {x \in SeqsUpTo(cs, n - 1) : Len(x) = n - 1}, c \in cs}

Tails == SeqsUpTo(TailAlphabet, MaxTailLen)

LinkSchemes ==
  { <<"v", "s", "c", "o", "d", "e">>, <<"v", "s", "c", "o", "d", "e", "-", "i", "n", "s", "i", "d", "e", "r", "s">>, <<"a", "n", "t", "i", "g", "r", "a", "v", "i", "t", "y">>, <<"c", "u", "r", "s", "o", "r">>, <<"v", "s", "c", "o", "d", "i", "u", "m">> }

LinkDelimiters == { <<":">>, <<":", "/", "/">> }

LinkHeads == { <<>>, <<"e", "x", "t", "e", "n", "s", "i", "o", "n", "/">>, <<"m", "c", "p", "/", "b", "y", "-", "n", "a", "m", "e", "/">>, <<"g", "h", "-", "A", "u", "t", "h", "e", "n", "t", "i", "c", "a", "t", "i", "o", "n">> }

\* Every scheme, in bare and in authority form, before every head and tail.
GeneratedLinks ==
  {s \o d \o h \o t : s \in LinkSchemes, d \in LinkDelimiters, h \in LinkHeads, t \in Tails}

SampleLinks ==
  { <<>>,
    <<"#">>,
    <<"/", "f", "i", "l", "e", "s", "/", "p", "u", "b", ".", "n", "a", "m", "e", "-", "1", ".", "0", ".", "v", "s", "i", "x">>,
    <<"m", "a", "i", "l", "t", "o", ":", "a">>,
    <<"h", "t", "t", "p", "s", ":", "/", "/", "e", "x", "a", "m", "p", "l", "e", ".", "c", "o", "m", "/", "p", "a", "g", "e">>,
    \* authentication callbacks
    <<"v", "s", "c", "o", "d", "e", ":", "/", "/", "v", "s", "c", "o", "d", "e", ".", "g", "i", "t", "h", "u", "b", "-", "a", "u", "t", "h", "e", "n", "t", "i", "c", "a", "t", "i", "o", "n", "/", "d", "i", "d", "-", "a", "u", "t", "h", "e", "n", "t", "i", "c", "a", "t", "e", "?", "c", "o", "d", "e", "=", "1">>,
    <<"v", "s", "c", "o", "d", "e", ":", "/", "/", "v", "s", "c", "o", "d", "e", ".", "g", "i", "t", "h", "u", "b", "-", "a", "u", "t", "h", "e", "n", "t", "i", "c", "a", "t", "i", "o", "n", "?", "c", "o", "d", "e", "=", "1">>,
    <<"c", "u", "r", "s", "o", "r", ":", "x", ".", "A", "U", "T", "H", "E", "N", "T", "I", "C", "A", "T", "I", "O", "N", "/", "c", "b">>,
    <<"h", "t", "t", "p", "s", ":", "/", "/", "a", "u", "t", "h", "e", "n", "t", "i", "c", "a", "t", "i", "o", "n", ".", "e", "x", "a", "m", "p", "l", "e", ".", "c", "o", "m", "/", "p", "u", "b", ".", "n", "a", "m", "e", "-", "1", ".", "0", ".", "v", "s", "i", "x">>,
    <<"h", "t", "t", "p", "s", ":", "/", "/", "v", "s", "c", "o", "d", "e", ".", "d", "e", "v", "/", "r", "e", "d", "i", "r", "e", "c", "t", "?", "u", "r", "l", "=", "v", "s", "c", "o", "d", "e", "%", "3", "A", "%", "2", "F", "%", "2", "F", "g", "i", "t", "h", "u", "b", "-", "a", "u", "t", "h", "e", "n", "t", "i", "c", "a", "t", "i", "o", "n", "%", "2", "F", "c", "b">>,
    \* extension pages
    <<"v", "s", "c", "o", "d", "e", ":", "e", "x", "t", "e", "n", "s", "i", "o", "n", "/", "m", "s", "-", "p", "y", "t", "h", "o", "n", ".", "p", "y", "t", "h", "o", "n">>,
    <<"v", "s", "c", "o", "d", "e", "-", "i", "n", "s", "i", "d", "e", "r", "s", ":", "/", "/", "e", "x", "t", "e", "n", "s", "i", "o", "n", "/", "m", "s", "-", "p", "y", "t", "h", "o", "n", ".", "p", "y", "t", "h", "o", "n", "?", "x", "=", "1">>,
    <<"v", "s", "c", "o", "d", "e", ":", "e", "x", "t", "e", "n", "s", "i", "o", "n", "/", "v", "s", "c", "o", "d", "e", ".", "d", "e", "v", "/", "r", "e", "d", "i", "r", "e", "c", "t">>,
    <<"v", "s", "c", "o", "d", "e", ":", "e", "x", "t", "e", "n", "s", "i", "o", "n", "/", "a", ".", "v", "s", "i", "x", "#", "f">>,
    \* vscode.dev redirects
    <<"h", "t", "t", "p", "s", ":", "/", "/", "i", "n", "s", "i", "d", "e", "r", "s", ".", "v", "s", "c", "o", "d", "e", ".", "d", "e", "v", "/", "r", "e", "d", "i", "r", "e", "c", "t", "?", "u", "r", "l", "=", "v", "s", "c", "o", "d", "e", "%", "3", "A", "e", "x", "t", "e", "n", "s", "i", "o", "n", "%", "2", "F", "f", "o", "o", ".", "b", "a", "r">>,
    <<"h", "t", "t", "p", "s", ":", "/", "/", "v", "s", "c", "o", "d", "e", ".", "d", "e", "v", "/", "r", "e", "d", "i", "r", "e", "c", "t", "?", "u", "r", "l", "=", "v", "s", "c", "o", "d", "e", "-", "i", "n", "s", "i", "d", "e", "r", "s", "%", "3", "A", "%", "2", "F", "%", "2", "F", "f", "i", "l", "e", "%", "2", "F", "x">>,
    <<"h", "t", "t", "p", "s", ":", "/", "/", "v", "s", "c", "o", "d", "e", ".", "d", "e", "v", "/", "r", "e", "d", "i", "r", "e", "c", "t", "?", "u", "r", "l", "=", "a", "n", "t", "i", "g", "r", "a", "v", "i", "t", "y", "%", "3", "A", "%", "2", "F", "%", "2", "F", "f", "i", "l", "e", "%", "2", "F", "x">>,
    <<"h", "t", "t", "p", "s", ":", "/", "/", "v", "s", "c", "o", "d", "e", ".", "d", "e", "v", "/", "r", "e", "d", "i", "r", "e", "c", "t", "?", "u", "r", "l", "=", "c", "u", "r", "s", "o", "r", "%", "2", "5", "3", "A", "f", "i", "l", "e">>,
    <<"h", "t", "t", "p", "s", ":", "/", "/", "v", "s", "c", "o", "d", "e", ".", "d", "e", "v", "/", "r", "e", "d", "i", "r", "e", "c", "t", "?", "u", "r", "l", "=", "%", "2", "5">>,
    <<"v", "s", "c", "o", "d", "e", ":", "/", "/", "[">>,
    <<"v", "s", "c", "o", "d", "e", ":", "/", "/", "[", "/", "v", "s", "c", "o", "d", "e", ".", "d", "e", "v", "/", "r", "e", "d", "i", "r", "e", "c", "t">>,
    <<"h", "t", "t", "p", "s", ":", "/", "/", "[", "/", "d", "l", "/", "p", "u", "b", ".", "n", "a", "m", "e", "-", "1", ".", "0", ".", "v", "s", "i", "x">>,
    <<"v", "s", "c", "o", "d", "e", ":", "e", "x", "t", "e", "n", "s", "i", "o", "n", "/", "v", "s", "c", "o", "d", "e", ".", "d", "e", "v", "/", "r", "e", "d", "i", "r", "e", "c", "t", "?", "u", "r", "l", "=", "%", "2", "5">>,
    <<"v", "s", "c", "o", "d", "e", ":", "m", "c", "p", "/", "b", "y", "-", "n", "a", "m", "e", "/", "[">>,
    <<"h", "t", "t", "p", "s", ":", "/", "/", "v", "s", "c", "o", "d", "e", ".", "d", "e", "v", "/", "r", "e", "d", "i", "r", "e", "c", "t", "?", "u", "r", "l", "=", "h", "t", "t", "p", "s", "%", "3", "A", "%", "2", "F", "%", "2", "F", "e", "x", "a", "m", "p", "l", "e", ".", "c", "o", "m">>,
    <<"h", "t", "t", "p", "s", ":", "/", "/", "v", "s", "c", "o", "d", "e", ".", "d", "e", "v", "/", "r", "e", "d", "i", "r", "e", "c", "t", "?", "u", "r", "l", "=", "v", "s", "c", "o", "d", "e", "%", "3", "A", "m", "c", "p", "%", "2", "F", "b", "y", "-", "n", "a", "m", "e", "%", "2", "F", "h", "u", "g", "g", "i", "n", "g", "f", "a", "c", "e">>,
    <<"h", "t", "t", "p", "s", ":", "/", "/", "v", "s", "c", "o", "d", "e", ".", "d", "e", "v", "/", "r", "e", "d", "i", "r", "e", "c", "t", "?", "u", "r", "l", "=", "h", "t", "t", "p", "s", "%", "3", "A", "%", "2", "F", "%", "2", "F", "e", "x", "a", "m", "p", "l", "e", ".", "c", "o", "m", "%", "2", "F", "d", "l", "%", "2", "F", "p", "u", "b", ".", "n", "a", "m", "e", "-", "1", ".", "0", ".", "v", "s", "i", "x">>,
    <<"h", "t", "t", "p", "s", ":", "/", "/", "i", "n", "s", "i", "d", "e", "r", "s", ".", "v", "s", "c", "o", "d", "e", ".", "d", "e", "v", "/", "r", "e", "d", "i", "r", "e", "c", "t", "/", "m", "c", "p", "/", "i", "n", "s", "t", "a", "l", "l", "?", "n", "a", "m", "e", "=", "g", "i", "t", "h", "u", "b">>,
    <<"h", "t", "t", "p", "s", ":", "/", "/", "v", "s", "c", "o", "d", "e", ".", "d", "e", "v", "/", "r", "e", "d", "i", "r", "e", "c", "t", "/", "p", "u", "b", ".", "n", "a", "m", "e", "-", "1", ".", "0", ".", "v", "s", "i", "x">>,
    <<"h", "t", "t", "p", "s", ":", "/", "/", "e", "x", "a", "m", "p", "l", "e", ".", "c", "o", "m", "/", "g", "o", "?", "t", "o", "=", "v", "s", "c", "o", "d", "e", ".", "d", "e", "v", "/", "r", "e", "d", "i", "r", "e", "c", "t">>,
    <<"v", "s", "c", "o", "d", "e", ":", "m", "c", "p", "/", "v", "s", "c", "o", "d", "e", ".", "d", "e", "v", "/", "r", "e", "d", "i", "r", "e", "c", "t">>,
    <<"v", "s", "c", "o", "d", "e", ".", "d", "e", "v", "/", "r", "e", "d", "i", "r", "e", "c", "t">>,
    \* VSIX downloads
    <<"h", "t", "t", "p", "s", ":", "/", "/", "e", "x", "a", "m", "p", "l", "e", ".", "c", "o", "m", "/", "f", "i", "l", "e", "s", "/", "p", "u", "b", ".", "n", "a", "m", "e", "-", "1", ".", "0", ".", "v", "s", "i", "x">>,
    <<"h", "t", "t", "p", "s", ":", "/", "/", "e", "x", "a", "m", "p", "l", "e", ".", "c", "o", "m", "/", "x", ".", "v", "s", "i", "x">>,
    <<"h", "t", "t", "p", ":", "/", "/", "e", "x", "a", "m", "p", "l", "e", ".", "c", "o", "m", "/", "p", "u", "b", ".", "n", "a", "m", "e", ".", "V", "S", "I", "X">>,
    <<"h", "t", "t", "p", "s", ":", "/", "/", "e", "x", "a", "m", "p", "l", "e", ".", "c", "o", "m", "/", "p", "u", "b", ".", "-", "1", ".", "0", ".", "v", "s", "i", "x">>,
    <<"h", "t", "t", "p", "s", ":", "/", "/", "e", "x", "a", "m", "p", "l", "e", ".", "c", "o", "m", "/", "a", "-", "b", ".", "c", "-", ".", "v", "s", "i", "x">>,
    <<"h", "t", "t", "p", "s", ":", "/", "/", "e", "x", "a", "m", "p", "l", "e", ".", "c", "o", "m", "/", "d", "l", "/", "p", "u", "b", ".", "n", "a", "m", "e", "-", "1", ".", "0", ".", "v", "s", "i", "x", "?", "a", "=", "1", "&", "b", "=", "%", "2", "F", "+", "c", "#", "t", "o", "p">>,
    <<"h", "t", "t", "p", "s", ":", "/", "/", "o", "p", "e", "n", "-", "v", "s", "x", ".", "o", "r", "g", "/", "a", "p", "i", "/", "p", "u", "b", "/", "n", "a", "m", "e", "/", "1", ".", "0", "/", "f", "i", "l", "e", "/", "p", "u", "b", ".", "n", "a", "m", "e", "-", "1", ".", "0", ".", "v", "s", "i", "x">>,
    <<"h", "t", "t", "p", "s", ":", "/", "/", "w", "w", "w", ".", "o", "p", "e", "n", "-", "v", "s", "x", ".", "o", "r", "g", "/", "a", "p", "i", "/", "p", "u", "b", "/", "n", "a", "m", "e", "/", "1", ".", "0", "/", "f", "i", "l", "e">>,
    <<"h", "t", "t", "p", "s", ":", "/", "/", "m", "a", "r", "k", "e", "t", "p", "l", "a", "c", "e", ".", "v", "i", "s", "u", "a", "l", "s", "t", "u", "d", "i", "o", ".", "c", "o", "m", "/", "_", "a", "p", "i", "s", "/", "p", "u", "b", "l", "i", "c", "/", "g", "a", "l", "l", "e", "r", "y", "/", "p", "u", "b", "l", "i", "s", "h", "e", "r", "s", "/", "m", "s", "-", "p", "y", "t", "h", "o", "n", "/", "v", "s", "e", "x", "t", "e", "n", "s", "i", "o", "n", "s", "/", "p", "y", "t", "h", "o", "n", "/", "2", "0", "2", "4", ".", "1", ".", "0", "/", "v", "s", "p", "a", "c", "k", "a", "g", "e">>,
    <<"h", "t", "t", "p", "s", ":", "/", "/", "m", "s", "-", "p", "y", "t", "h", "o", "n", ".", "g", "a", "l", "l", "e", "r", "y", ".", "v", "s", "a", "s", "s", "e", "t", "s", ".", "i", "o", "/", "_", "a", "p", "i", "s", "/", "p", "u", "b", "l", "i", "c", "/", "g", "a", "l", "l", "e", "r", "y", "/", "p", "u", "b", "l", "i", "s", "h", "e", "r", "/", "m", "s", "-", "p", "y", "t", "h", "o", "n", "/", "e", "x", "t", "e", "n", "s", "i", "o", "n", "/", "p", "y", "t", "h", "o", "n", "/", "2", "0", "2", "4", ".", "1", ".", "0", "/", "a", "s", "s", "e", "t", "b", "y", "n", "a", "m", "e", "/", "x">>,
    <<"h", "t", "t", "p", "s", ":", "/", "/", "g", "i", "t", "h", "u", "b", ".", "c", "o", "m", "/", "o", "/", "r", "/", "r", "e", "l", "e", "a", "s", "e", "s", "/", "d", "o", "w", "n", "l", "o", "a", "d", "/", "v", "1", "/", "p", "u", "b", ".", "n", "a", "m", "e", "-", "1", ".", "0", ".", "v", "s", "i", "x">>,
    <<"h", "t", "t", "p", "s", ":", "/", "/", "e", "x", "a", "m", "p", "l", "e", ".", "c", "o", "m", "/", "d", "l", "/", "p", "u", "b", ".", "n", "a", "m", "e", ".", "v", "s", "i", "x">>,
    <<"h", "t", "t", "p", "s", ":", "/", "/", "e", "x", "a", "m", "p", "l", "e", ".", "c", "o", "m", "/", "d", "l", "/", "P", "u", "b", ".", "N", "a", "m", "e", "-", "1", ".", "0", ".", "V", "S", "I", "X">>,
    <<"h", "t", "t", "p", "s", ":", "/", "/", "e", "x", "a", "m", "p", "l", "e", ".", "c", "o", "m", "/", "a", "p", "i", "/", "a", "/", "b", "/", "2", ".", "0", "/", "f", "i", "l", "e", "/", "p", "u", "b", ".", "n", "a", "m", "e", "-", "1", ".", "0", ".", "v", "s", "i", "x">>,
    <<"h", "t", "t", "p", "s", ":", "/", "/", "o", "p", "e", "n", "-", "v", "s", "x", ".", "o", "r", "g", "/", "a", "p", "i", "/", "p", "u", "b", "/", "n", "a", "m", "e", "/", "1", ".", "0", "/", "f", "i", "l", "e", "/", "a", "/", "b">>,
    <<"h", "t", "t", "p", "s", ":", "/", "/", "m", "a", "r", "k", "e", "t", "p", "l", "a", "c", "e", ".", "v", "i", "s", "u", "a", "l", "s", "t", "u", "d", "i", "o", ".", "c", "o", "m", "/", "_", "a", "p", "i", "s", "/", "p", "u", "b", "l", "i", "c", "/", "g", "a", "l", "l", "e", "r", "y", "/", "P", "u", "b", "l", "i", "s", "h", "e", "r", "s", "/", "p", "/", "v", "s", "e", "x", "t", "e", "n", "s", "i", "o", "n", "s", "/", "n", "/", "1", ".", "0", "/", "v", "s", "p", "a", "c", "k", "a", "g", "e">>,
    <<"h", "t", "t", "p", "s", ":", "/", "/", "x", ".", "g", "a", "l", "l", "e", "r", "y", ".", "v", "s", "a", "s", "s", "e", "t", "s", ".", "i", "o", "/", "_", "a", "p", "i", "s", "/", "p", "u", "b", "l", "i", "c", "/", "g", "a", "l", "l", "e", "r", "y", "/", "p", "u", "b", "l", "i", "s", "h", "e", "r", "/", "p", "/", "e", "x", "t", "e", "n", "s", "i", "o", "n", "/", "n", "/", "1", ".", "0", "/", "a", "s", "s", "e", "t", "b", "y", "n", "a", "m", "e", "/">>,
    <<"v", "s", "c", "o", "d", "e", ":", "/", "/", "e", "x", "a", "m", "p", "l", "e", ".", "c", "o", "m", "/", "p", "u", "b", ".", "n", "a", "m", "e", "-", "1", ".", "0", ".", "v", "s", "i", "x">>,
    \* MCP installs
    <<"v", "s", "c", "o", "d", "e", ":", "m", "c", "p", "/", "b", "y", "-", "n", "a", "m", "e", "/", "h", "u", "g", "g", "i", "n", "g", "f", "a", "c", "e">>,
    <<"v", "s", "c", "o", "d", "e", "-", "i", "n", "s", "i", "d", "e", "r", "s", ":", "m", "c", "p", "/", "b", "y", "-", "n", "a", "m", "e", "/", "h", "f", "-", "m", "c", "p", "-", "s", "e", "r", "v", "e", "r", "?", "x", "=", "1">>,
    <<"v", "s", "c", "o", "d", "e", ":", "m", "c", "p", "/", "b", "y", "-", "n", "a", "m", "e", "/", "g", "i", "t", "h", "u", "b">>,
    <<"v", "s", "c", "o", "d", "e", ":", "m", "c", "p", "/", "i", "n", "s", "t", "a", "l", "l", "?", "n", "a", "m", "e", "=", "g", "i", "t", "h", "u", "b">>,
    <<"v", "s", "c", "o", "d", "e", ":", "m", "c", "p", "/", "a", "p", "i", ".", "m", "c", "p", ".", "g", "i", "t", "h", "u", "b", ".", "c", "o", "m", "/", "v", "0", "/", "s", "e", "r", "v", "e", "r", "s", "/", "h", "u", "g", "g", "i", "n", "g", "f", "a", "c", "e", "/", "h", "f", "-", "m", "c", "p", "-", "s", "e", "r", "v", "e", "r">>,
    <<"v", "s", "c", "o", "d", "e", "-", "i", "n", "s", "i", "d", "e", "r", "s", ":", "m", "c", "p", "/", "a", "p", "i", ".", "m", "c", "p", ".", "g", "i", "t", "h", "u", "b", ".", "c", "o", "m", "/", "s", "e", "r", "v", "e", "r", "s", "/", "a", "/", "s", "e", "r", "v", "e", "r", "s", "/", "b", "/", "g", "i", "t", "h", "u", "b", "/", "x">>,
    <<"c", "u", "r", "s", "o", "r", ":", "m", "c", "p", "/", "b", "y", "-", "n", "a", "m", "e", "/", "h", "u", "g", "g", "i", "n", "g", "f", "a", "c", "e">>,
    \* plain protocol links
    <<"v", "s", "c", "o", "d", "e", ":", "/", "/", "f", "i", "l", "e", "/", "c", ":", "/", "x", ".", "t", "x", "t">>,
    <<"v", "s", "c", "o", "d", "i", "u", "m", ":", "f", "i", "l", "e", "/", "x", "?", "y", "=", "1", "#", "z">>,
    <<"w", "i", "n", "d", "s", "u", "r", "f", ":", "e", "x", "t", "e", "n", "s", "i", "o", "n", "/", "a">>,
    <<"w", "i", "n", "d", "s", "u", "r", "f", ":", "/", "/", "f", "i", "l", "e", "/", "x">>
  }

Hrefs == GeneratedLinks \cup SampleLinks

-----------------------------------------------------------------------------
\* The instruction modal (content.js 369-451): the elements of modalHTML that
\* carry an id or a class, in document order, each with the nearest such
\* ancestor as its parent (0 for the root, which container.firstElementChild
\* returns).

ModalElements ==
  << [parent |-> 0, id |-> "ide-switcher-mcp-modal", class |-> "ide-switcher-mcp-modal-overlay"],
     [parent |-> 1, id |-> "", class |-> "ide-switcher-mcp-modal"],
     [parent |-> 2, id |-> "", class |-> "ide-switcher-mcp-modal-header"],
     [parent |-> 3, id |-> "", class |-> "ide-switcher-mcp-modal-close"],
     [parent |-> 2, id |-> "", class |-> "ide-switcher-mcp-modal-content"],
     [parent |-> 5, id |-> "", class |-> "ide-switcher-mcp-modal-intro"],
     [parent |-> 5, id |-> "", class |-> "ide-switcher-mcp-modal-link"],
     [parent |-> 5, id |-> "", class |-> "ide-switcher-mcp-modal-footer"],
     [parent |-> 8, id |-> "", class |-> "ide-switcher-mcp-modal-button"],
     [parent |-> 8, id |-> "", class |-> "ide-switcher-mcp-modal-checkbox"],
     [parent |-> 10, id |-> "ide-switcher-mcp-dont-show-again", class |-> ""] >>

RECURSIVE IsDescendant(_, _)
IsDescendant(e, root) ==
  /\ ModalElements[e].parent # 0
  /\ \/ ModalElements[e].parent = root
     \/ IsDescendant(ModalElements[e].parent, root)

\* Element.querySelector for a class selector: the first descendant of root
\* (never root itself) that has the class; 0 is null.
QuerySelector(root, class) ==
  IF \E e \in 1..Len(ModalElements) : IsDescendant(e, root) /\ ModalElements[e].class = class
  THEN CHOOSE e \in 1..Len(ModalElements) :
         /\ IsDescendant(e, root) /\ ModalElements[e].class = class
         /\ \A j \in 1..(e - 1) : ~(IsDescendant(j, root) /\ ModalElements[j].class = class)
  ELSE 0

\* createMcpInstructionModal throws a TypeError when addEventListener is called
\* on the null of a querySelector without a match (content.js 430-448); modal
\* is element 1.
CreateModalThrows ==
  \/ QuerySelector(1, "ide-switcher-mcp-modal-close") = 0
  \/ QuerySelector(1, "ide-switcher-mcp-modal-overlay") = 0

-----------------------------------------------------------------------------
\* The protocol registration helper (scripts/package.js 66-327).

\* process.env.LOCALAPPDATA of the machine the helper runs on.
LOCALAPPDATA == <<"C", ":", "\\", "U", "s", "e", "r", "s", "\\", "u", "\\", "A", "p", "p", "D", "a", "t", "a", "\\", "L", "o", "c", "a", "l">>

\* The properties every object literal inherits from Object.prototype.
InheritedKeys == { <<"c", "o", "n", "s", "t", "r", "u", "c", "t", "o", "r">>, <<"t", "o", "S", "t", "r", "i", "n", "g">>, <<"_", "_", "p", "r", "o", "t", "o", "_", "_">> }

\* DEFAULT_IDE_PATHS[protocol] for an own key (package.js 77-99); the empty
\* list stands for a protocol that is no key.
DEFAULT_IDE_PATHS(protocol) ==
  CASE protocol = <<"v", "s", "c", "o", "d", "e">> ->
         << LOCALAPPDATA \o <<"\\", "P", "r", "o", "g", "r", "a", "m", "s", "\\", "M", "i", "c", "r", "o", "s", "o", "f", "t", " ", "V", "S", " ", "C", "o", "d", "e", "\\", "C", "o", "d", "e", ".", "e", "x", "e">>,
            <<"C", ":", "\\", "P", "r", "o", "g", "r", "a", "m", " ", "F", "i", "l", "e", "s", "\\", "M", "i", "c", "r", "o", "s", "o", "f", "t", " ", "V", "S", " ", "C", "o", "d", "e", "\\", "C", "o", "d", "e", ".", "e", "x", "e">> >>
    [] protocol = <<"v", "s", "c", "o", "d", "e", "-", "i", "n", "s", "i", "d", "e", "r", "s">> ->
         << LOCALAPPDATA \o <<"\\", "P", "r", "o", "g", "r", "a", "m", "s", "\\", "M", "i", "c", "r", "o", "s", "o", "f", "t", " ", "V", "S", " ", "C", "o", "d", "e", " ", "I", "n", "s", "i", "d", "e", "r", "s", "\\", "C", "o", "d", "e", " ", "-", " ", "I", "n", "s", "i", "d", "e", "r", "s", ".", "e", "x", "e">>,
            <<"C", ":", "\\", "P", "r", "o", "g", "r", "a", "m", " ", "F", "i", "l", "e", "s", "\\", "M", "i", "c", "r", "o", "s", "o", "f", "t", " ", "V", "S", " ", "C", "o", "d", "e", " ", "I", "n", "s", "i", "d", "e", "r", "s", "\\", "C", "o", "d", "e", " ", "-", " ", "I", "n", "s", "i", "d", "e", "r", "s", ".", "e", "x", "e">> >>
    [] protocol = <<"a", "n", "t", "i", "g", "r", "a", "v", "i", "t", "y">> ->
         << LOCALAPPDATA \o <<"\\", "P", "r", "o", "g", "r", "a", "m", "s", "\\", "A", "n", "t", "i", "g", "r", "a", "v", "i", "t", "y", "\\", "A", "n", "t", "i", "g", "r", "a", "v", "i", "t", "y", ".", "e", "x", "e">>,
            <<"C", ":", "\\", "P", "r", "o", "g", "r", "a", "m", " ", "F", "i", "l", "e", "s", "\\", "A", "n", "t", "i", "g", "r", "a", "v", "i", "t", "y", "\\", "A", "n", "t", "i", "g", "r", "a", "v", "i", "t", "y", ".", "e", "x", "e">>,
            <<"C", ":", "\\", "D", "e", "v", "\\", "b", "i", "n", "\\", "A", "n", "t", "i", "g", "r", "a", "v", "i", "t", "y", ".", "e", "x", "e">> >>
    [] protocol = <<"c", "u", "r", "s", "o", "r">> ->
         << LOCALAPPDATA \o <<"\\", "P", "r", "o", "g", "r", "a", "m", "s", "\\", "C", "u", "r", "s", "o", "r", "\\", "C", "u", "r", "s", "o", "r", ".", "e", "x", "e">>,
            LOCALAPPDATA \o <<"\\", "c", "u", "r", "s", "o", "r", "\\", "C", "u", "r", "s", "o", "r", ".", "e", "x", "e">> >>
    [] protocol = <<"w", "i", "n", "d", "s", "u", "r", "f">> ->
         << LOCALAPPDATA \o <<"\\", "P", "r", "o", "g", "r", "a", "m", "s", "\\", "W", "i", "n", "d", "s", "u", "r", "f", "\\", "W", "i", "n", "d", "s", "u", "r", "f", ".", "e", "x", "e">>,
            <<"C", ":", "\\", "P", "r", "o", "g", "r", "a", "m", " ", "F", "i", "l", "e", "s", "\\", "W", "i", "n", "d", "s", "u", "r", "f", "\\", "W", "i", "n", "d", "s", "u", "r", "f", ".", "e", "x", "e">> >>
    [] OTHER -> << >>

\* What "const paths = DEFAULT_IDE_PATHS[protocol]" is (package.js 121): a
\* list, undefined, or a function or object inherited from Object.prototype,
\* which is truthy and not iterable.
PathsKind(protocol) ==
  IF DEFAULT_IDE_PATHS(protocol) # << >> THEN "list"
  ELSE IF protocol \in InheritedKeys THEN "inherited"
  ELSE "undefined"

\* The first path of a list that exists; NULL when none does (package.js 124-129).
FirstExisting(paths, existing) ==
  IF \E i \in 1..Len(paths) : paths[i] \in existing
  THEN paths[CHOOSE i \in 1..Len(paths) :
               /\ paths[i] \in existing
               /\ \A j \in 1..(i - 1) : paths[j] \notin existing]
  ELSE NULL

\* String.prototype.trim on the output of PowerShell.
WhiteSpace == {" ", "\n", "\r", "\t"}

RECURSIVE TrimStart(_)
TrimStart(s) == IF s # <<>> /\ s[1] \in WhiteSpace THEN TrimStart(Tail(s)) ELSE s

RECURSIVE TrimEnd(_)
TrimEnd(s) ==
  IF s # <<>> /\ s[Len(s)] \in WhiteSpace THEN TrimEnd(SubSeq(s, 1, Len(s) - 1)) ELSE s

Trim(s) == TrimEnd(TrimStart(s))

\* The callback of exec in readRegistry (package.js 141-148): null on an
\* error of the child process and on an empty output.
ReadResult(error, stdout) ==
  IF error \/ Trim(stdout) = <<>> THEN NULL ELSE Trim(stdout)

\* value.match(/^"([^"]+)"/): the group, NULL without a match (package.js 224-225).
ExecPathOf(value) ==
  IF /\ StartsWith(value, <<"\"">>)
     /\ RunOutside(Slice(value, 1), {"\""}) # <<>>
     /\ Len(RunOutside(Slice(value, 1), {"\""})) + 2 <= Len(value)
  THEN RunOutside(Slice(value, 1), {"\""})
  ELSE NULL

\* The loop over the classes root first.
RegistryPaths_RootFirst(protocol) ==
  << <<"R", "e", "g", "i", "s", "t", "r", "y", ":", ":", "H", "K", "E", "Y", "_", "C", "L", "A", "S", "S", "E", "S", "_", "R", "O", "O", "T", "\\">> \o protocol \o <<"\\", "s", "h", "e", "l", "l", "\\", "o", "p", "e", "n", "\\", "c", "o", "m", "m", "a", "n", "d">>,
     <<"H", "K", "C", "U", ":", "\\", "S", "o", "f", "t", "w", "a", "r", "e", "\\", "C", "l", "a", "s", "s", "e", "s", "\\">> \o protocol \o <<"\\", "s", "h", "e", "l", "l", "\\", "o", "p", "e", "n", "\\", "c", "o", "m", "m", "a", "n", "d">> >>

\* The registry paths of checkProtocolRegistration (package.js 214-217), in
\* the order of the loop.
RegistryPaths(protocol) ==
  << <<"H", "K", "C", "U", ":", "\\", "S", "o", "f", "t", "w", "a", "r", "e", "\\", "C", "l", "a", "s", "s", "e", "s", "\\">> \o protocol \o <<"\\", "s", "h", "e", "l", "l", "\\", "o", "p", "e", "n", "\\", "c", "o", "m", "m", "a", "n", "d">>,
     <<"R", "e", "g", "i", "s", "t", "r", "y", ":", ":", "H", "K", "E", "Y", "_", "C", "L", "A", "S", "S", "E", "S", "_", "R", "O", "O", "T", "\\">> \o protocol \o <<"\\", "s", "h", "e", "l", "l", "\\", "o", "p", "e", "n", "\\", "c", "o", "m", "m", "a", "n", "d">> >>

\* basePath, the description and the command of registerProtocol
\* (package.js 254, 257 and 270-271).
BasePath(protocol) == <<"H", "K", "C", "U", ":", "\\", "S", "o", "f", "t", "w", "a", "r", "e", "\\", "C", "l", "a", "s", "s", "e", "s", "\\">> \o protocol

DescriptionValue(protocol) == <<"U", "R", "L", ":">> \o protocol \o <<" ", "P", "r", "o", "t", "o", "c", "o", "l">>

CommandPath(protocol) == BasePath(protocol) \o <<"\\", "s", "h", "e", "l", "l", "\\", "o", "p", "e", "n", "\\", "c", "o", "m", "m", "a", "n", "d">>

CommandValue(execPath) == <<"\"">> \o execPath \o <<"\"", " ", "\"", "-", "-", "o", "p", "e", "n", "-", "u", "r", "l", "\"", " ", "\"", "-", "-", "\"", " ", "\"", "%", "1", "\"">>

-----------------------------------------------------------------------------
\* State.

VARIABLES
  stored,            \* chrome.storage.sync[STORAGE_KEY]; NULL when absent
  dismissed,         \* chrome.storage.sync.mcpInstructionModalDismissed
  targetProtocol,    \* let targetProtocol (content.js 69)
  dataset,           \* document.documentElement.dataset.ideTargetProtocol
  initPc,            \* position of init(): "get", "got", "set", "setDone", "ready"
  getResult,         \* what the get of loadSettings settled with, while it is held
  pc,                \* position of the click cycle
  href,              \* href of the clicked link; NULL without a click or a link
  entryTarget,       \* targetProtocol when handleClick was entered
  branch,            \* the rule of handleClick that ended the synchronous part
  defaultPrevented,  \* event.preventDefault() was called
  sent,              \* extensionId of the installExtension message sent; NULL if none
  reply,             \* what the await of sendMessage produced
  replyTarget,       \* targetProtocol when the reply was handled
  location,          \* value assigned to window.location.href; NULL if none
  modalShown,        \* the modal was appended to document.body
  modalTask          \* showMcpInstructionModal: "none", "pending", "returned", "rejected"

\* The registration helper and the machine it runs on.
VARIABLES
  regProtocol,       \* the protocol the helper is called with
  files,             \* the paths for which fs.access succeeds
  registry,          \* the values of the registry: [desc, marker, hkcu, hklm]
  regCall,           \* the exported function that runs: "none", "check", "register", "auto"
  regPc,             \* its position: "idle", "read", "writeDesc", "writeMarker", "writeCmd", "done"
  regExecPath,       \* execPath of registerProtocol
  reads,             \* the registry reads of the call, in order: [path, error, value]
  writes,            \* the registry writes issued by the call, in order
  regResult          \* what the call's promise settled with

regVars ==
  << regProtocol, files, registry, regCall, regPc, regExecPath, reads, writes, regResult >>

vars ==
  << stored, dismissed, targetProtocol, dataset, initPc, getResult, pc, href, entryTarget,
     branch, defaultPrevented, sent, reply, replyTarget, location, modalShown, modalTask,
     regVars >>

storeVars == << stored, dismissed, targetProtocol, dataset, initPc, getResult >>

\* No settled get is held; and the get was rejected.
NONE == <<"none">>

REJECTED == <<"rejected">>

cycleVars ==
  << pc, href, entryTarget, branch, defaultPrevented, sent, reply, replyTarget, location,
     modalShown, modalTask >>

\* Values the storage key can hold: absent, a supported protocol, or a value
\* that is not supported (written by another version or device).
StoredValues == SUPPORTED_PROTOCOLS \cup { NULL, <<"v", "s", "c", "o", "d", "i", "u", "m">> }

\* What the await of chrome.runtime.sendMessage can produce:
\* {success: true}, {success: false, error: 'Native Host not installed'},
\* {success: false, error: <another text>}, undefined, or a rejection.
Replies == {"success", "nativeHostMissing", "otherError", "noResponse", "threw"}

\* v || DEFAULT_PROTOCOL
OrDefault(v) == IF v = NULL \/ v = <<>> THEN DEFAULT_PROTOCOL ELSE v

\* A new value taken without the test for the supported set.
Coerce_Unchecked(v) == OrDefault(v)

\* SUPPORTED_PROTOCOLS.has(nextProtocol) ? nextProtocol : DEFAULT_PROTOCOL
\* (content.js 105-106)
Coerce(v) == IF OrDefault(v) \in SUPPORTED_PROTOCOLS THEN OrDefault(v) ELSE DEFAULT_PROTOCOL

Idle ==
  /\ pc = "idle" /\ href = NULL /\ entryTarget = NULL /\ branch = "none"
  /\ defaultPrevented = FALSE /\ sent = NULL /\ reply = "none" /\ replyTarget = NULL
  /\ location = NULL /\ modalShown = FALSE /\ modalTask = "none"

\* What a promise of the helper settles with: the fields of the result
\* object, NULL for a field it does not have; kind is "none" while it is
\* pending and "rejected" when it rejects.
Result(kind, ok, execPath, registryValue, error, alreadyRegistered) ==
  [kind |-> kind, ok |-> ok, execPath |-> execPath, registryValue |-> registryValue,
   error |-> error, alreadyRegistered |-> alreadyRegistered]

NoResult == Result("none", FALSE, NULL, NULL, NULL, FALSE)

RegIdle ==
  /\ regCall = "none" /\ regPc = "idle" /\ regExecPath = NULL
  /\ reads = <<>> /\ writes = <<>> /\ regResult = NoResult

Init ==
  /\ stored \in StoredValues
  /\ dismissed \in BOOLEAN
  /\ targetProtocol = DEFAULT_PROTOCOL
  /\ dataset = NULL
  /\ initPc = "get"
  /\ getResult = NONE
  /\ Idle
  /\ regProtocol = <<"c", "u", "r", "s", "o", "r">>
  /\ files = {}
  /\ registry = [desc |-> NULL, marker |-> FALSE, hkcu |-> NULL, hklm |-> NULL]
  /\ RegIdle

-----------------------------------------------------------------------------
\* init (content.js 845-860) and the settings.

\* "await chrome.storage.sync.get(STORAGE_KEY)" (content.js 76): the storage
\* is read, or the get fails; loadSettings resumes in a later step.
StorageGet(fails) ==
  /\ initPc = "get"
  /\ getResult' = IF fails THEN REJECTED ELSE stored
  /\ initPc' = "got"
  /\ UNCHANGED << stored, dismissed, targetProtocol, dataset >>
  /\ UNCHANGED cycleVars
  /\ UNCHANGED regVars

\* loadSettings resumed after its get (content.js 77-89): on a failure the
\* default is taken; a supported (or absent) value is taken; in both cases init
\* goes on to updateInterceptorState, listenForSettingsChanges and the click
\* listener; an unsupported value is first overwritten.
LoadSettingsGet ==
  /\ initPc = "got"
  /\ IF getResult = REJECTED
     THEN /\ targetProtocol' = DEFAULT_PROTOCOL
          /\ dataset' = DEFAULT_PROTOCOL
          /\ initPc' = "ready"
     ELSE IF OrDefault(getResult) \in SUPPORTED_PROTOCOLS
       THEN /\ targetProtocol' = OrDefault(getResult)
            /\ dataset' = OrDefault(getResult)
            /\ initPc' = "ready"
       ELSE /\ initPc' = "set"
            /\ UNCHANGED << targetProtocol, dataset >>
  /\ getResult' = NONE
  /\ UNCHANGED << stored, dismissed >>
  /\ UNCHANGED cycleVars
  /\ UNCHANGED regVars

\* "await chrome.storage.sync.set({[STORAGE_KEY]: DEFAULT_PROTOCOL})"
\* (content.js 80): the write is done, or fails; loadSettings resumes in a
\* later step.  No listener of the content script is registered yet.
StorageSet(fails) ==
  /\ initPc = "set"
  /\ stored' = IF fails THEN stored ELSE DEFAULT_PROTOCOL
  /\ initPc' = "setDone"
  /\ UNCHANGED << dismissed, targetProtocol, dataset, getResult >>
  /\ UNCHANGED cycleVars
  /\ UNCHANGED regVars

\* loadSettings resumed after its set (content.js 81-89): done or failed,
\* the default is taken; init goes on as above.
LoadSettingsSet ==
  /\ initPc = "setDone"
  /\ targetProtocol' = DEFAULT_PROTOCOL
  /\ dataset' = DEFAULT_PROTOCOL
  /\ initPc' = "ready"
  /\ UNCHANGED << stored, dismissed, getResult >>
  /\ UNCHANGED cycleVars
  /\ UNCHANGED regVars

\* A write of the storage key (setSelectedProtocol of the popup, content.js
\* 910-918, or a sync from elsewhere) and its change event: the listener of
\* listenForSettingsChanges (content.js 102-112) runs with the new value when
\* init has registered it; before that the event reaches no listener.
StorageChanged(v) ==
  /\ v # stored
  /\ stored' = v
  /\ IF initPc = "ready"
     THEN /\ targetProtocol' = Coerce(v)
          /\ dataset' = Coerce(v)
     ELSE UNCHANGED << targetProtocol, dataset >>
  /\ UNCHANGED << dismissed, initPc, getResult >>
  /\ UNCHANGED cycleVars
  /\ UNCHANGED regVars

-----------------------------------------------------------------------------
\* handleClick (content.js 672-811).

\* What the part of handleClick before its first await does: the rule that
\* ends it, whether preventDefault was called, the URL assigned to
\* window.location.href, the extension id sent for installation, and whether
\* showMcpInstructionModal was called.
Outcome(b, p, loc, msg, modal) ==
  [branch |-> b, prevented |-> p, location |-> loc, sent |-> msg, modal |-> modal]

Untouched(b) == Outcome(b, FALSE, NULL, NULL, FALSE)

Navigate(b, url) == Outcome(b, TRUE, url, NULL, FALSE)

\* The extension rule without its exemption for the target's own scheme.
ExtensionRule_AlwaysIntercept(h, t, extensionId) ==
  Outcome("extension", TRUE, NULL, extensionId, FALSE)

\* content.js 684-727, up to the await of sendMessage.
ExtensionRule(h, t, extensionId) ==
  IF t \in VSCODE_EXTENSION_SCHEMES /\ StartsWith(h, t \o <<":">>)
  THEN Untouched("extension")
  ELSE Outcome("extension", TRUE, NULL, extensionId, FALSE)

\* The redirect rule without its test for a null result.
RedirectRule_NoNullTest(targetUrl) == Navigate("redirect", targetUrl)

\* content.js 730-742; targetUrl is convertVSCodeDevToProtocol(href).
RedirectRule(targetUrl) ==
  IF targetUrl = NULL \/ targetUrl = <<>> THEN Untouched("redirect")
  ELSE Navigate("redirect", targetUrl)

\* content.js 795-810: the standard protocol links; targetUrl is
\* convertToTargetUrl(href).
PlainRule(h, targetUrl) ==
  IF ~isVSCodeUrl(h) THEN Untouched("unrecognized")
  ELSE IF targetUrl = h THEN Untouched("plain")
  ELSE Navigate("plain", targetUrl)

\* content.js 762-778: an MCP link under the target antigravity.
McpInstructions(h, serverName, mcpUrl) ==
  IF serverName # NULL
  THEN Outcome("mcp", TRUE, NULL, NULL, MCP_REPO_MAP(serverName) # NULL)
  ELSE PlainRule(h, mcpUrl)

\* content.js 760-793: the MCP links; mcpUrl is convertToTargetUrl(href).  A
\* link the rule does not end on goes on to the standard protocol links.
McpRule(h, t, mcpUrl) ==
  IF t = <<"a", "n", "t", "i", "g", "r", "a", "v", "i", "t", "y">> THEN McpInstructions(h, extractMcpServerName(h), mcpUrl)
  ELSE IF mcpUrl # h THEN Navigate("mcp", mcpUrl)
  ELSE PlainRule(h, mcpUrl)

handleClickSync(h, t) ==
  IF h = NULL THEN Untouched("nolink")
  ELSE IF isAuthCallbackUrl(h) THEN Untouched("auth")
  ELSE IF parseVSCodeExtensionId(h) # NULL
    THEN ExtensionRule(h, t, parseVSCodeExtensionId(h))
  ELSE IF isVSCodeDevRedirectUrl(h) THEN RedirectRule(convertVSCodeDevToProtocol(h, t))
  ELSE IF isVsixUrl(h)
    THEN Navigate("vsix", buildVsixInstallUrl(t, h, parseExtensionFromVsixUrl(h)))
  ELSE IF isMcpUrl(h) THEN McpRule(h, t, convertToTargetUrl(h, t))
  ELSE PlainRule(h, convertToTargetUrl(h, t))

\* The state after the synchronous part of handleClick with outcome o.
Handled(h, o) ==
  /\ href' = h
  /\ entryTarget' = targetProtocol
  /\ branch' = o.branch
  /\ defaultPrevented' = o.prevented
  /\ location' = o.location
  /\ sent' = o.sent
  /\ modalTask' = IF o.modal THEN "pending" ELSE "none"
  /\ pc' = IF o.sent # NULL THEN "awaitInstall"
           ELSE IF o.modal THEN "awaitDismissed"
           ELSE "done"

\* A click event reaches handleClick: the listener is registered at the end of
\* init.  h = NULL is a click outside every link.
Click(h) ==
  /\ initPc = "ready"
  /\ pc = "idle"
  /\ Handled(h, handleClickSync(h, targetProtocol))
  /\ UNCHANGED << reply, replyTarget, modalShown >>
  /\ UNCHANGED storeVars
  /\ UNCHANGED regVars

\* The fallback URL without its "extension/" path.
ExtensionProtocolUrl_NoPath(t, extensionId) == getProtocolPrefix(t) \o extensionId

\* The protocol URL of the fallback (content.js 709-711 and 720-722).
ExtensionProtocolUrl(t, extensionId) ==
  IF t = <<"a", "n", "t", "i", "g", "r", "a", "v", "i", "t", "y">>
  THEN <<"a", "n", "t", "i", "g", "r", "a", "v", "i", "t", "y", ":", "/", "/">> \o extensionId
  ELSE getProtocolPrefix(t) \o <<"e", "x", "t", "e", "n", "s", "i", "o", "n", "/">> \o extensionId

\* A fallback on every reply but success.
FallsBack_AnyFailure(r) == r # "success"

\* Whether handleClick falls back to the protocol URL on reply r
\* (content.js 704-725).
FallsBack(r) == r \in {"nativeHostMissing", "threw"}

\* handleClick after "await chrome.runtime.sendMessage(...)".
InstallReply(r) ==
  /\ pc = "awaitInstall"
  /\ reply' = r
  /\ replyTarget' = targetProtocol
  /\ location' = IF FallsBack(r) THEN ExtensionProtocolUrl(targetProtocol, sent) ELSE NULL
  /\ pc' = "done"
  /\ UNCHANGED << href, entryTarget, branch, defaultPrevented, sent, modalShown, modalTask >>
  /\ UNCHANGED storeVars
  /\ UNCHANGED regVars

\* showMcpInstructionModal after "await chrome.storage.sync.get(...)"
\* (content.js 639-667): the get succeeds or fails; a failure is logged and the
\* modal is created as when the flag is unset.  The interval that waits for
\* the modal to be closed is set after document.body.appendChild(modal).
DismissedGet(fails) ==
  /\ pc = "awaitDismissed"
  /\ IF ~fails /\ dismissed
     THEN /\ location' = MCP_REPO_MAP(extractMcpServerName(href))
          /\ modalTask' = "returned"
          /\ UNCHANGED modalShown
     ELSE IF CreateModalThrows
       THEN /\ modalTask' = "rejected"
            /\ UNCHANGED << location, modalShown >>
       ELSE /\ modalTask' = "returned"
            /\ modalShown' = TRUE
            /\ UNCHANGED location
  /\ pc' = "done"
  /\ UNCHANGED << href, entryTarget, branch, defaultPrevented, sent, reply, replyTarget >>
  /\ UNCHANGED storeVars
  /\ UNCHANGED regVars

\* The cycle is over; the page waits for the next click.
NextEvent ==
  /\ pc = "done"
  /\ pc' = "idle" /\ href' = NULL /\ entryTarget' = NULL /\ branch' = "none"
  /\ defaultPrevented' = FALSE /\ sent' = NULL /\ reply' = "none" /\ replyTarget' = NULL
  /\ location' = NULL /\ modalShown' = FALSE /\ modalTask' = "none"
  /\ UNCHANGED storeVars
  /\ UNCHANGED regVars

Next ==
  \/ \E f \in BOOLEAN : StorageGet(f)
  \/ LoadSettingsGet
  \/ \E f \in BOOLEAN : StorageSet(f)
  \/ LoadSettingsSet
  \/ \E v \in StoredValues : StorageChanged(v)
  \/ \E h \in Hrefs \cup {NULL} : Click(h)
  \/ \E r \in Replies : InstallReply(r)
  \/ \E f \in BOOLEAN : DismissedGet(f)
  \/ NextEvent

Spec == Init /\ [][Next]_vars

-----------------------------------------------------------------------------
\* The registration helper as a state machine: one call at a time of
\* checkProtocolRegistration, registerProtocol or autoRegisterProtocol, each
\* await of a child process being one step.

\* The protocols the helper is called with: two keys of DEFAULT_IDE_PATHS, a
\* protocol that is no key, and a name every object inherits.
RegProtocols == { <<"c", "u", "r", "s", "o", "r">>, <<"a", "n", "t", "i", "g", "r", "a", "v", "i", "t", "y">>, <<"v", "s", "c", "o", "d", "i", "u", "m">>, <<"c", "o", "n", "s", "t", "r", "u", "c", "t", "o", "r">> }

\* An executable outside the candidate lists.
CustomPath == <<"D", ":", "\\", "i", "d", "e", "\\", "i", "d", "e", ".", "e", "x", "e">>

\* The files a machine can have.
FileSets ==
  { {},
    { DEFAULT_IDE_PATHS(<<"c", "u", "r", "s", "o", "r">>)[2] },
    { DEFAULT_IDE_PATHS(<<"a", "n", "t", "i", "g", "r", "a", "v", "i", "t", "y">>)[2], DEFAULT_IDE_PATHS(<<"a", "n", "t", "i", "g", "r", "a", "v", "i", "t", "y">>)[3] },
    { CustomPath } }

\* The (default) value a command key can hold: no key, a quoted command, an
\* unquoted command, blanks, and a command whose quoted part is empty.
RegistryValues ==
  { NULL, <<"\"", "C", ":", "\\", "i", "d", "e", ".", "e", "x", "e", "\"", " ", "\"", "%", "1", "\"">>, <<"C", ":", "\\", "i", "d", "e", ".", "e", "x", "e", " ", "%", "1">>, <<" ", " ">>, <<"\"", "\"", " ", "\"", "%", "1", "\"">> }

\* The value the registry holds at a path of RegistryPaths; HKEY_CLASSES_ROOT
\* shows the per-user key when there is one, else the machine's.
ValueAt(reg, path) ==
  IF StartsWith(path, <<"H", "K", "C", "U", ":">>) \/ reg.hkcu # NULL THEN reg.hkcu ELSE reg.hklm

\* What the PowerShell command of readRegistry prints (package.js 139): the
\* value, or '' from its catch, and the end of the line.
StdoutOf(value) == (IF value = NULL THEN <<>> ELSE value) \o <<"\r", "\n">>

\* What exec hands to the callback of writeRegistry: the script printed
\* SUCCESS, the script printed ERROR, the child process failed, it failed
\* with text on stderr, or it printed nothing.
ExecOutcomes ==
  { [error |-> NULL, stdout |-> <<"S", "U", "C", "C", "E", "S", "S">> \o <<"\r", "\n">>, stderr |-> <<>>],
    [error |-> NULL, stderr |-> <<>>,
     stdout |-> <<"E", "R", "R", "O", "R", ":", " ", "R", "e", "q", "u", "e", "s", "t", "e", "d", " ", "r", "e", "g", "i", "s", "t", "r", "y", " ", "a", "c", "c", "e", "s", "s", " ", "i", "s", " ", "n", "o", "t", " ", "a", "l", "l", "o", "w", "e", "d", ".">> \o <<"\r", "\n">>],
    [error |-> <<"s", "p", "a", "w", "n", " ", "p", "o", "w", "e", "r", "s", "h", "e", "l", "l", " ", "E", "N", "O", "E", "N", "T">>, stdout |-> <<>>, stderr |-> <<>>],
    [error |-> <<"C", "o", "m", "m", "a", "n", "d", " ", "f", "a", "i", "l", "e", "d">>, stdout |-> <<>>, stderr |-> <<"A", "c", "c", "e", "s", "s", " ", "i", "s", " ", "d", "e", "n", "i", "e", "d">>],
    [error |-> NULL, stdout |-> <<>>, stderr |-> <<>>] }

\* The callback of exec in writeRegistry (package.js 191-201).
WriteResult(o) ==
  IF o.error # NULL \/ ~StartsWith(Trim(o.stdout), <<"S", "U", "C", "C", "E", "S", "S">>)
  THEN [success |-> FALSE,
        error |-> IF o.stderr # <<>> THEN o.stderr
                  ELSE IF Trim(o.stdout) # <<>> THEN Trim(o.stdout)
                  ELSE IF o.error # NULL THEN o.error
                  ELSE <<"U", "n", "k", "n", "o", "w", "n", " ", "e", "r", "r", "o", "r">>]
  ELSE [success |-> TRUE, error |-> NULL]

\* A write as the registry saw it.
Write(key, name, value, ok) == [key |-> key, name |-> name, value |-> value, ok |-> ok]

\* The message of the TypeError of fs.access for a path that is no string.
InvalidPathMessage ==
  <<"T", "h", "e", " ", "\"", "p", "a", "t", "h", "\"", " ", "a", "r", "g", "u", "m", "e", "n", "t", " ", "m", "u", "s", "t", " ", "b", "e", " ", "o", "f", " ", "t", "y", "p", "e", " ", "s", "t", "r", "i", "n", "g", " ", "o", "r", " ", "a", "n", " ", "i", "n", "s", "t", "a", "n", "c", "e", " ", "o", "f", " ", "B", "u", "f", "f", "e", "r", " ", "o", "r", " ", "U", "R", "L", ".">>

\* The error of autoRegisterProtocol without an installation (package.js 300).
CannotFind(protocol) ==
  <<"C", "a", "n", "n", "o", "t", " ", "f", "i", "n", "d", " ">> \o protocol
    \o <<" ", "i", "n", "s", "t", "a", "l", "l", "a", "t", "i", "o", "n", ".", " ", "P", "l", "e", "a", "s", "e", " ", "i", "n", "s", "t", "a", "l", "l", " ", "i", "t", " ", "f", "i", "r", "s", "t", " ", "o", "r", " ", "s", "p", "e", "c", "i", "f", "y", " ", "t", "h", "e", " ", "p", "a", "t", "h", " ", "m", "a", "n", "u", "a", "l", "l", "y", ".">>

Settle(result) ==
  /\ regResult' = result
  /\ regPc' = "done"

\* registerProtocol up to its first write (package.js 248-257), for a call
\* named call.
RegisterEntry(call, execPath) ==
  /\ regCall' = call
  /\ regExecPath' = execPath
  /\ IF execPath = NULL
     THEN Settle(Result(call, FALSE, NULL, NULL, InvalidPathMessage, FALSE))
     ELSE IF execPath \notin files
     THEN Settle(Result(call, FALSE, NULL, NULL, <<"E", "x", "e", "c", "u", "t", "a", "b", "l", "e", " ", "n", "o", "t", " ", "f", "o", "u", "n", "d", ":", " ">> \o execPath, FALSE))
     ELSE /\ regPc' = "writeDesc"
          /\ regResult' = regResult

\* autoRegisterProtocol after the protocol was found unregistered
\* (package.js 296-305).
AutoAfterCheck ==
  CASE PathsKind(regProtocol) = "inherited" ->
         /\ Settle(Result("rejected", FALSE, NULL, NULL, <<"p", "a", "t", "h", "s", " ", "i", "s", " ", "n", "o", "t", " ", "i", "t", "e", "r", "a", "b", "l", "e">>, FALSE))
         /\ UNCHANGED << regCall, regExecPath >>
    [] PathsKind(regProtocol) = "undefined" ->
         /\ Settle(Result("auto", FALSE, NULL, NULL, CannotFind(regProtocol), FALSE))
         /\ UNCHANGED << regCall, regExecPath >>
    [] OTHER ->
         IF FirstExisting(DEFAULT_IDE_PATHS(regProtocol), files) = NULL
         THEN /\ Settle(Result("auto", FALSE, NULL, NULL, CannotFind(regProtocol), FALSE))
              /\ UNCHANGED << regCall, regExecPath >>
         ELSE RegisterEntry("auto", FirstExisting(DEFAULT_IDE_PATHS(regProtocol), files))

\* A call of checkProtocolRegistration (package.js 211).
CheckProtocolRegistrationCall(protocol) ==
  /\ regPc = "idle"
  /\ regProtocol' = protocol
  /\ regCall' = "check"
  /\ regPc' = "read"
  /\ UNCHANGED << files, registry, regExecPath, reads, writes, regResult >>
  /\ UNCHANGED << storeVars, cycleVars >>

\* A call of autoRegisterProtocol (package.js 288-290).
AutoRegisterProtocolCall(protocol) ==
  /\ regPc = "idle"
  /\ regProtocol' = protocol
  /\ regCall' = "auto"
  /\ regPc' = "read"
  /\ UNCHANGED << files, registry, regExecPath, reads, writes, regResult >>
  /\ UNCHANGED << storeVars, cycleVars >>

\* A call of registerProtocol (package.js 247-257).
RegisterProtocolCall(protocol, execPath) ==
  /\ regPc = "idle"
  /\ regProtocol' = protocol
  /\ RegisterEntry("register", execPath)
  /\ UNCHANGED << files, registry, reads, writes >>
  /\ UNCHANGED << storeVars, cycleVars >>

\* One turn of the loop of checkProtocolRegistration (package.js 219-235)
\* and what its caller does with the result (package.js 290-305); error
\* says that the child process of readRegistry failed.
RegistryRead(error) ==
  /\ regPc = "read"
  /\ LET regPath == RegistryPaths(regProtocol)[Len(reads) + 1]
         value == ReadResult(error, StdoutOf(ValueAt(registry, regPath)))
     IN /\ reads' = Append(reads, [path |-> regPath, error |-> error, value |-> value])
        /\ IF value # NULL
           THEN /\ Settle(IF regCall = "check"
                          THEN Result("check", TRUE, ExecPathOf(value), value, NULL, FALSE)
                          ELSE Result("auto", TRUE, ExecPathOf(value), NULL, NULL, TRUE))
                /\ UNCHANGED << regCall, regExecPath >>
           ELSE IF Len(reads) + 1 < Len(RegistryPaths(regProtocol))
           THEN UNCHANGED << regCall, regPc, regExecPath, regResult >>
           ELSE IF regCall = "check"
           THEN /\ Settle(Result("check", FALSE, NULL, NULL, NULL, FALSE))
                /\ UNCHANGED << regCall, regExecPath >>
           ELSE AutoAfterCheck
  /\ UNCHANGED << regProtocol, files, registry, writes >>
  /\ UNCHANGED << storeVars, cycleVars >>

\* The description write and what follows it (package.js 257-260).
WriteDescReply(o) ==
  /\ regPc = "writeDesc"
  /\ writes' = Append(writes, Write(BasePath(regProtocol), <<"(", "d", "e", "f", "a", "u", "l", "t", ")">>,
                                    DescriptionValue(regProtocol), WriteResult(o).success))
  /\ IF WriteResult(o).success
     THEN /\ registry' = [registry EXCEPT !.desc = DescriptionValue(regProtocol)]
          /\ regPc' = "writeMarker"
          /\ regResult' = regResult
     ELSE /\ Settle(Result(regCall, FALSE, NULL, NULL,
                           <<"F", "a", "i", "l", "e", "d", " ", "t", "o", " ", "s", "e", "t", " ", "d", "e", "s", "c", "r", "i", "p", "t", "i", "o", "n", ":", " ">> \o WriteResult(o).error, FALSE))
          /\ registry' = registry
  /\ UNCHANGED << regProtocol, files, regCall, regExecPath, reads >>
  /\ UNCHANGED << storeVars, cycleVars >>

\* The write of the 'URL Protocol' value (package.js 263-266): its callback
\* takes no argument and resolves.
WriteMarkerReply(ok) ==
  /\ regPc = "writeMarker"
  /\ writes' = Append(writes, Write(BasePath(regProtocol), <<"U", "R", "L", " ", "P", "r", "o", "t", "o", "c", "o", "l">>, <<>>, ok))
  /\ registry' = [registry EXCEPT !.marker = @ \/ ok]
  /\ regPc' = "writeCmd"
  /\ UNCHANGED << regProtocol, files, regCall, regExecPath, reads, regResult >>
  /\ UNCHANGED << storeVars, cycleVars >>

\* What registerProtocol returns after the command write (package.js 273-277).
registerProtocolReturn(cmdResult) ==
  IF cmdResult.success
  THEN Result("register", TRUE, NULL, NULL, NULL, FALSE)
  ELSE Result("register", FALSE, NULL, NULL,
              <<"F", "a", "i", "l", "e", "d", " ", "t", "o", " ", "s", "e", "t", " ", "c", "o", "m", "m", "a", "n", "d", ":", " ">> \o cmdResult.error, FALSE)

\* What autoRegisterProtocol makes of the result of registerProtocol
\* (package.js 305-310).
autoRegisterProtocolReturn(result, execPath) ==
  IF result.ok
  THEN Result("auto", TRUE, execPath, NULL, NULL, FALSE)
  ELSE [result EXCEPT !.kind = "auto"]

\* The command write and the return of the call (package.js 270-277, 305-310).
WriteCmdReply(o) ==
  /\ regPc = "writeCmd"
  /\ writes' = Append(writes, Write(CommandPath(regProtocol), <<"(", "d", "e", "f", "a", "u", "l", "t", ")">>,
                                    CommandValue(regExecPath), WriteResult(o).success))
  /\ registry' = IF WriteResult(o).success
                 THEN [registry EXCEPT !.hkcu = CommandValue(regExecPath)]
                 ELSE registry
  /\ Settle(IF regCall = "auto"
            THEN autoRegisterProtocolReturn(registerProtocolReturn(WriteResult(o)), regExecPath)
            ELSE registerProtocolReturn(WriteResult(o)))
  /\ UNCHANGED << regProtocol, files, regCall, regExecPath, reads >>
  /\ UNCHANGED << storeVars, cycleVars >>

\* The caller has the result; the helper can be called again.
RegReturn ==
  /\ regPc = "done"
  /\ regCall' = "none" /\ regPc' = "idle" /\ regExecPath' = NULL
  /\ reads' = <<>> /\ writes' = <<>> /\ regResult' = NoResult
  /\ UNCHANGED << regProtocol, files, registry >>
  /\ UNCHANGED << storeVars, cycleVars >>

\* The content script at rest, on a machine with some files and some
\* registry.
RegInit ==
  /\ stored = NULL
  /\ dismissed = FALSE
  /\ targetProtocol = DEFAULT_PROTOCOL
  /\ dataset = NULL
  /\ initPc = "get"
  /\ getResult = NONE
  /\ Idle
  /\ regProtocol \in RegProtocols
  /\ files \in FileSets
  /\ registry \in [desc : {NULL}, marker : {FALSE}, hkcu : RegistryValues, hklm : RegistryValues]
  /\ RegIdle

RegNext ==
  \/ \E p \in RegProtocols : CheckProtocolRegistrationCall(p)
  \/ \E p \in RegProtocols : AutoRegisterProtocolCall(p)
  \/ \E p \in RegProtocols, e \in UNION FileSets \cup {NULL} : RegisterProtocolCall(p, e)
  \/ \E e \in BOOLEAN : RegistryRead(e)
  \/ \E o \in ExecOutcomes : WriteDescReply(o)
  \/ \E b \in BOOLEAN : WriteMarkerReply(b)
  \/ \E o \in ExecOutcomes : WriteCmdReply(o)
  \/ RegReturn

RegSpec == RegInit /\ [][RegNext]_vars

-----------------------------------------------------------------------------
\* Vocabulary of the properties.

\* The click was left to the browser: no preventDefault, no message, no navigation.
LeftUnchanged == defaultPrevented = FALSE /\ sent = NULL /\ location = NULL

\* A link is being handled or has been handled.
Clicked == pc # "idle" /\ href # NULL

\* The scheme of a link and what follows the scheme's colon.
SchemeOf(url) == RunOutside(url, {":"})

AfterColon(url) == Slice(url, Len(SchemeOf(url)) + 1)

HasScheme(url) == SchemeOf(url) # <<>> /\ Len(SchemeOf(url)) < Len(url)

\* The provider (host) of a link: what follows the scheme and its ":" or "://",
\* up to the path, the query or the fragment.
ProviderOf(url) ==
  RunOutside(IF StartsWith(AfterColon(url), <<"/", "/">>) THEN Slice(AfterColon(url), 2)
             ELSE AfterColon(url),
             {"/", "?", "#"})

HasAuthenticationProvider(url) ==
  HasScheme(url) /\ Includes(ToLowerCase(ProviderOf(url)), <<"a", "u", "t", "h", "e", "n", "t", "i", "c", "a", "t", "i", "o", "n">>)

\* {vscode|vscode-insiders}:extension/{id} or {vscode|vscode-insiders}://extension/{id}
IsExtensionInstallShape(url) ==
  \E s \in { <<"v", "s", "c", "o", "d", "e">>, <<"v", "s", "c", "o", "d", "e", "-", "i", "n", "s", "i", "d", "e", "r", "s">> }, d \in { <<":">>, <<":", "/", "/">> } :
     /\ StartsWith(url, s \o d \o <<"e", "x", "t", "e", "n", "s", "i", "o", "n", "/">>)
     /\ RunOutside(Slice(url, Len(s \o d \o <<"e", "x", "t", "e", "n", "s", "i", "o", "n", "/">>)), {"?", "#"}) # <<>>

\* The {id} of a link of that shape.
ExtensionIdOf(url) ==
  RunOutside(Slice(url, Len(SchemeOf(url)) + (IF StartsWith(AfterColon(url), <<"/", "/">>) THEN 3 ELSE 1)
                          + Len(<<"e", "x", "t", "e", "n", "s", "i", "o", "n", "/">>)),
             {"?", "#"})

\* The category of a link: the first rule of the specification's list that matches.
Classify(url) ==
  IF url = NULL THEN "nolink"
  ELSE IF isAuthCallbackUrl(url) THEN "auth"
  ELSE IF parseVSCodeExtensionId(url) # NULL THEN "extension"
  ELSE IF isVSCodeDevRedirectUrl(url) THEN "redirect"
  ELSE IF isVsixUrl(url) THEN "vsix"
  ELSE IF isMcpUrl(url) THEN "mcp"
  ELSE IF isVSCodeUrl(url) THEN "plain"
  ELSE "unrecognized"

\* The prefix of a target: "antigravity://", and "{target}:" for the others.
TargetPrefix(t) == IF t = <<"a", "n", "t", "i", "g", "r", "a", "v", "i", "t", "y">> THEN <<"a", "n", "t", "i", "g", "r", "a", "v", "i", "t", "y", ":", "/", "/">> ELSE t \o <<":">>

-----------------------------------------------------------------------------
\* C1: a link whose provider contains "authentication" (any scheme, any case)
\* is left unchanged by handleClick, and convertToTargetUrl returns it as it is.
\* The source recognises the provider only when a "/" follows it.
C1_AuthCallbackUnchanged ==
  (Clicked /\ HasAuthenticationProvider(href))
    => (LeftUnchanged /\ convertToTargetUrl(href, entryTarget) = href)

\* C2 as stated: the rule that decides a link is the first category that
\* matches it, in the order auth-callback, extension-install, dev-redirect,
\* vsix-download, mcp-install, plain-protocol, unrecognized.
C2_FirstMatchDecides == pc # "idle" => branch = Classify(href)

\* The MCP rule does nothing with the link: no server name under antigravity,
\* or the scheme of the target already.
McpRuleIdle(url, t) ==
  IF t = <<"a", "n", "t", "i", "g", "r", "a", "v", "i", "t", "y">> THEN extractMcpServerName(url) = NULL
  ELSE StartsWith(url, t \o <<":">>)

\* C2 amended: the first matching category decides, except that an MCP link
\* the MCP rule does nothing with is decided by the plain-protocol rule; a link
\* of the extension-install shape is always decided by the extension rule.
C2_FirstMatchOrMcpFallThrough ==
  pc # "idle" =>
    /\ branch = IF Classify(href) = "mcp" /\ McpRuleIdle(href, entryTarget)
                THEN "plain" ELSE Classify(href)
    /\ (href # NULL /\ IsExtensionInstallShape(href)) => branch = "extension"

C2_Witness ==
  /\ pc = "done" /\ StartsWith(href, <<"v", "s", "c", "o", "d", "e", ":", "/", "/", "e", "x", "t", "e", "n", "s", "i", "o", "n", "/">>)
  /\ entryTarget = <<"c", "u", "r", "s", "o", "r">> /\ branch = "extension" /\ location # NULL

\* C3: a plain-protocol link of another scheme than the target is redirected to
\* the target's prefix followed by everything after the colon of the source
\* scheme, character for character.
C3_PlainPrefixReplaced ==
  (Clicked /\ Classify(href) = "plain" /\ SchemeOf(href) # entryTarget)
    => /\ convertToTargetUrl(href, entryTarget) = TargetPrefix(entryTarget) \o AfterColon(href)
       /\ defaultPrevented
       /\ location = TargetPrefix(entryTarget) \o AfterColon(href)

C3_Witness ==
  /\ pc = "done" /\ href = <<"v", "s", "c", "o", "d", "e", ":", "/", "/", "f", "i", "l", "e", "/", "c", ":", "/", "x", ".", "t", "x", "t">> /\ entryTarget = <<"c", "u", "r", "s", "o", "r">>
  /\ location = <<"c", "u", "r", "s", "o", "r", ":", "/", "/", "f", "i", "l", "e", "/", "c", ":", "/", "x", ".", "t", "x", "t">>

\* C4: a plain-protocol link of the target's scheme is returned unchanged by
\* convertToTargetUrl and left unchanged by handleClick, and converting any
\* link twice gives what converting it once gives.
C4_TargetSchemeNoOp ==
  Clicked =>
    /\ (Classify(href) = "plain" /\ SchemeOf(href) = entryTarget)
         => (convertToTargetUrl(href, entryTarget) = href /\ LeftUnchanged)
    /\ convertToTargetUrl(convertToTargetUrl(href, entryTarget), entryTarget)
         = convertToTargetUrl(href, entryTarget)

C4_Witness ==
  /\ pc = "done" /\ Classify(href) = "plain" /\ entryTarget = <<"a", "n", "t", "i", "g", "r", "a", "v", "i", "t", "y">>
  /\ SchemeOf(href) = <<"a", "n", "t", "i", "g", "r", "a", "v", "i", "t", "y">> /\ StartsWith(href, <<"a", "n", "t", "i", "g", "r", "a", "v", "i", "t", "y", ":", "/", "/">>)
  /\ LeftUnchanged

\* C5 as stated: the protocol URL handleClick navigates to for an
\* extension-install link is classified extension-install with the same id.
C5_RoundTrip ==
  (pc = "done" /\ branch = "extension" /\ location # NULL)
    => parseVSCodeExtensionId(location) = sent

\* C5 amended: that holds when the target is vscode or vscode-insiders; the URL
\* produced for antigravity, cursor or windsurf is not classified
\* extension-install at all.
C5_RoundTripForVSCodeTargets ==
  (pc = "done" /\ branch = "extension" /\ location # NULL)
    => parseVSCodeExtensionId(location) =
         (IF replyTarget \in { <<"v", "s", "c", "o", "d", "e">>, <<"v", "s", "c", "o", "d", "e", "-", "i", "n", "s", "i", "d", "e", "r", "s">> } THEN ExtensionIdOf(href) ELSE NULL)

C5_Witness ==
  /\ pc = "done" /\ branch = "extension" /\ replyTarget = <<"v", "s", "c", "o", "d", "e">>
  /\ href = <<"v", "s", "c", "o", "d", "e", "-", "i", "n", "s", "i", "d", "e", "r", "s", ":", "/", "/", "e", "x", "t", "e", "n", "s", "i", "o", "n", "/", "m", "s", "-", "p", "y", "t", "h", "o", "n", ".", "p", "y", "t", "h", "o", "n", "?", "x", "=", "1">>
  /\ location = <<"v", "s", "c", "o", "d", "e", ":", "e", "x", "t", "e", "n", "s", "i", "o", "n", "/", "m", "s", "-", "p", "y", "t", "h", "o", "n", ".", "p", "y", "t", "h", "o", "n">>

\* The fallback URL of an extension id under a target.
ExpectedExtensionUrl(t, id) ==
  IF t = <<"a", "n", "t", "i", "g", "r", "a", "v", "i", "t", "y">> THEN <<"a", "n", "t", "i", "g", "r", "a", "v", "i", "t", "y", ":", "/", "/">> \o id ELSE t \o <<":", "e", "x", "t", "e", "n", "s", "i", "o", "n", "/">> \o id

\* C6: an extension-install link that the target does not handle natively is
\* first sent for installation by id; the page navigates to the target's
\* protocol URL for the id exactly when the reply is 'Native Host not installed'
\* or the message call fails.
C6_InstallThenFallback ==
  /\ (Clicked /\ IsExtensionInstallShape(href) /\ entryTarget \notin VSCODE_EXTENSION_SCHEMES)
       => (defaultPrevented /\ sent = ExtensionIdOf(href))
  /\ pc = "awaitInstall" => (defaultPrevented /\ sent = ExtensionIdOf(href) /\ location = NULL)
  /\ (pc = "done" /\ branch = "extension" /\ defaultPrevented)
       => /\ location # NULL <=> reply \in {"nativeHostMissing", "threw"}
          /\ location # NULL => location = ExpectedExtensionUrl(replyTarget, ExtensionIdOf(href))

C6_Witness ==
  /\ pc = "done" /\ href = <<"v", "s", "c", "o", "d", "e", ":", "e", "x", "t", "e", "n", "s", "i", "o", "n", "/", "m", "s", "-", "p", "y", "t", "h", "o", "n", ".", "p", "y", "t", "h", "o", "n">> /\ entryTarget = <<"c", "u", "r", "s", "o", "r">>
  /\ sent = <<"m", "s", "-", "p", "y", "t", "h", "o", "n", ".", "p", "y", "t", "h", "o", "n">> /\ reply = "nativeHostMissing"
  /\ location = <<"c", "u", "r", "s", "o", "r", ":", "e", "x", "t", "e", "n", "s", "i", "o", "n", "/", "m", "s", "-", "p", "y", "t", "h", "o", "n", ".", "p", "y", "t", "h", "o", "n">>

\* C7 as stated: under the target vscode or vscode-insiders every
\* extension-install link, of either scheme, is left unchanged.
C7_NativeTargetUnchanged ==
  (Clicked /\ entryTarget \in VSCODE_EXTENSION_SCHEMES /\ IsExtensionInstallShape(href))
    => LeftUnchanged

\* C7 amended: under the target vscode or vscode-insiders an extension-install
\* link is left unchanged exactly when its scheme is the target's; a link of
\* the other scheme is intercepted and sent for installation.
C7_SameSchemeUnchanged ==
  (Clicked /\ entryTarget \in VSCODE_EXTENSION_SCHEMES /\ IsExtensionInstallShape(href))
    => IF SchemeOf(href) = entryTarget THEN LeftUnchanged
       ELSE defaultPrevented /\ sent = ExtensionIdOf(href)

C7_Witness ==
  /\ pc = "done" /\ entryTarget = <<"v", "s", "c", "o", "d", "e">> /\ href = <<"v", "s", "c", "o", "d", "e", ":", "e", "x", "t", "e", "n", "s", "i", "o", "n", "/", "m", "s", "-", "p", "y", "t", "h", "o", "n", ".", "p", "y", "t", "h", "o", "n">>
  /\ branch = "extension" /\ LeftUnchanged

\* The name and version parameters a VSIX link is to carry; NULL for none.
ExpectedNameParam(info) ==
  IF info.found /\ info.publisher \notin {NULL, <<>>} /\ info.name \notin {NULL, <<>>}
  THEN info.publisher \o <<".">> \o info.name ELSE NULL

ExpectedVersionParam(info) ==
  IF info.found /\ info.version \notin {NULL, <<>>} THEN info.version ELSE NULL

\* The query of an install URL under target t.
InstallQuery(url, t) == Slice(url, Len(t \o <<":", "/", "/", "e", "x", "t", "e", "n", "s", "i", "o", "n", "/", "i", "n", "s", "t", "a", "l", "l">>))

ParamCount(info) ==
  1 + (IF ExpectedNameParam(info) = NULL THEN 0 ELSE 1)
    + (IF ExpectedVersionParam(info) = NULL THEN 0 ELSE 1)

\* C8: a VSIX download link is intercepted and the page navigates to
\* {target}://extension/install? with the parameters url (the original link),
\* name ({publisher}.{name}, exactly when both were extracted) and version
\* (exactly when one was extracted), and no other parameter.
C8_VsixInstallUrl ==
  (Clicked /\ Classify(href) = "vsix")
    => /\ defaultPrevented /\ sent = NULL /\ location # NULL
       /\ StartsWith(location, entryTarget \o <<":", "/", "/", "e", "x", "t", "e", "n", "s", "i", "o", "n", "/", "i", "n", "s", "t", "a", "l", "l", "?">>)
       /\ SearchParamsGet(InstallQuery(location, entryTarget), <<"u", "r", "l">>) = href
       /\ SearchParamsGet(InstallQuery(location, entryTarget), <<"n", "a", "m", "e">>)
            = ExpectedNameParam(parseExtensionFromVsixUrl(href))
       /\ SearchParamsGet(InstallQuery(location, entryTarget), <<"v", "e", "r", "s", "i", "o", "n">>)
            = ExpectedVersionParam(parseExtensionFromVsixUrl(href))
       /\ Len(Split(InstallQuery(location, entryTarget), "&"))
            = ParamCount(parseExtensionFromVsixUrl(href))

C8_Witness ==
  /\ pc = "done" /\ entryTarget = <<"a", "n", "t", "i", "g", "r", "a", "v", "i", "t", "y">>
  /\ href = <<"h", "t", "t", "p", "s", ":", "/", "/", "m", "a", "r", "k", "e", "t", "p", "l", "a", "c", "e", ".", "v", "i", "s", "u", "a", "l", "s", "t", "u", "d", "i", "o", ".", "c", "o", "m", "/", "_", "a", "p", "i", "s", "/", "p", "u", "b", "l", "i", "c", "/", "g", "a", "l", "l", "e", "r", "y", "/", "p", "u", "b", "l", "i", "s", "h", "e", "r", "s", "/", "m", "s", "-", "p", "y", "t", "h", "o", "n", "/", "v", "s", "e", "x", "t", "e", "n", "s", "i", "o", "n", "s", "/", "p", "y", "t", "h", "o", "n", "/", "2", "0", "2", "4", ".", "1", ".", "0", "/", "v", "s", "p", "a", "c", "k", "a", "g", "e">>
  /\ location = <<"a", "n", "t", "i", "g", "r", "a", "v", "i", "t", "y", ":", "/", "/", "e", "x", "t", "e", "n", "s", "i", "o", "n", "/", "i", "n", "s", "t", "a", "l", "l", "?", "u", "r", "l", "=", "h", "t", "t", "p", "s", "%", "3", "A", "%", "2", "F", "%", "2", "F", "m", "a", "r", "k", "e", "t", "p", "l", "a", "c", "e", ".", "v", "i", "s", "u", "a", "l", "s", "t", "u", "d", "i", "o", ".", "c", "o", "m", "%", "2", "F", "_", "a", "p", "i", "s", "%", "2", "F", "p", "u", "b", "l", "i", "c", "%", "2", "F", "g", "a", "l", "l", "e", "r", "y", "%", "2", "F", "p", "u", "b", "l", "i", "s", "h", "e", "r", "s", "%", "2", "F", "m", "s", "-", "p", "y", "t", "h", "o", "n", "%", "2", "F", "v", "s", "e", "x", "t", "e", "n", "s", "i", "o", "n", "s", "%", "2", "F", "p", "y", "t", "h", "o", "n", "%", "2", "F", "2", "0", "2", "4", ".", "1", ".", "0", "%", "2", "F", "v", "s", "p", "a", "c", "k", "a", "g", "e", "&", "n", "a", "m", "e", "=", "m", "s", "-", "p", "y", "t", "h", "o", "n", ".", "p", "y", "t", "h", "o", "n", "&", "v", "e", "r", "s", "i", "o", "n", "=", "2", "0", "2", "4", ".", "1", ".", "0">>

\* C9: under the target antigravity, once the cycle of a click on an MCP link
\* whose server name is in MCP_REPO_MAP is over, the link was not rewritten and
\* the page has navigated to the repository or shows the modal whose closing
\* navigates there.
C9_McpRepositoryReached ==
  (pc = "done" /\ entryTarget = <<"a", "n", "t", "i", "g", "r", "a", "v", "i", "t", "y">> /\ branch = "mcp"
     /\ MCP_REPO_MAP(extractMcpServerName(href)) # NULL)
    => /\ defaultPrevented
       /\ location = MCP_REPO_MAP(extractMcpServerName(href)) \/ (location = NULL /\ modalShown)

\* C10: a cycle ends with the click left unchanged, or with the default
\* prevented and exactly one replacement (a navigation or a successful
\* install-by-id), or with the default prevented and the secondary action
\* (instructions, then the repository) carried out.
C10_ExactlyOneOutcome ==
  pc = "done" =>
    \/ LeftUnchanged
    \/ /\ defaultPrevented /\ modalTask = "none"
       /\ (location # NULL /\ reply # "success") \/ (location = NULL /\ reply = "success")
    \/ /\ defaultPrevented /\ modalTask = "returned"
       /\ location # NULL \/ modalShown

\* {vscode|vscode-insiders}:mcp/...
IsMcpShape(url) ==
  \E s \in { <<"v", "s", "c", "o", "d", "e">>, <<"v", "s", "c", "o", "d", "e", "-", "i", "n", "s", "i", "d", "e", "r", "s">> } : StartsWith(url, s \o <<":", "m", "c", "p", "/">>)

\* C11: under a target other than antigravity a click on an MCP link of another
\* scheme is redirected to "{target}:" followed by the remainder of the link
\* unchanged, and an MCP link of the target's scheme is left untouched.
\* The source takes a link that contains "vscode.dev/redirect" for a
\* dev-redirect before it looks for MCP links.
C11_McpPrefixReplaced ==
  (Clicked /\ entryTarget # <<"a", "n", "t", "i", "g", "r", "a", "v", "i", "t", "y">> /\ IsMcpShape(href))
    => IF SchemeOf(href) = entryTarget THEN LeftUnchanged
       ELSE /\ defaultPrevented /\ sent = NULL
            /\ location = entryTarget \o <<":">> \o AfterColon(href)

\* The url parameter of a dev-redirect link, and the inner URL it decodes to.
UrlParamOf(url) == SearchParamsGet(ParseURL(url).search, <<"u", "r", "l">>)

HasInnerUrl(url) ==
  /\ ParseURL(url).ok
  /\ UrlParamOf(url) \notin {NULL, <<>>}
  /\ ~DecodeThrows(UrlParamOf(url))

InnerUrlOf(url) == decodeURIComponent(UrlParamOf(url))

\* The address a click with outcome o on link h opens: the one navigated to,
\* the link itself when the click is left to the browser, NULL when the
\* default is prevented without a navigation.
Opens(h, o) == IF o.prevented THEN o.location ELSE h

\* C12 as stated: a dev-redirect link with a url parameter gets the outcome of
\* its decoded inner URL under the inner URL's own rule: the same address is
\* opened, the same install message sent, the same instructions shown.
C12_InnerUrlOwnOutcome ==
  (pc = "done" /\ branch = "redirect" /\ HasInnerUrl(href))
    => /\ location = Opens(InnerUrlOf(href), handleClickSync(InnerUrlOf(href), entryTarget))
       /\ sent = handleClickSync(InnerUrlOf(href), entryTarget).sent
       /\ (modalTask # "none") = handleClickSync(InnerUrlOf(href), entryTarget).modal

\* C12 amended: the inner URL is not classified.  The page navigates to the
\* inner URL with its IDE scheme replaced by the target's prefix (to the inner
\* URL itself when it is an authentication callback or has no IDE scheme), and
\* nothing else happens.  That is the inner URL's own outcome when the inner
\* URL is a plain-protocol link of another scheme than the target.
C12_InnerUrlPrefixReplaced ==
  (Clicked /\ branch = "redirect" /\ HasInnerUrl(href))
    => /\ defaultPrevented /\ sent = NULL /\ modalTask = "none"
       /\ location = IF ~isAuthCallbackUrl(InnerUrlOf(href)) /\ isVSCodeUrl(InnerUrlOf(href))
                     THEN TargetPrefix(entryTarget) \o AfterColon(InnerUrlOf(href))
                     ELSE InnerUrlOf(href)
       /\ (Classify(InnerUrlOf(href)) = "plain" /\ SchemeOf(InnerUrlOf(href)) # entryTarget)
            => location = Opens(InnerUrlOf(href), handleClickSync(InnerUrlOf(href), entryTarget))

C12_Witness ==
  /\ pc = "done" /\ entryTarget = <<"w", "i", "n", "d", "s", "u", "r", "f">>
  /\ href = <<"h", "t", "t", "p", "s", ":", "/", "/", "i", "n", "s", "i", "d", "e", "r", "s", ".", "v", "s", "c", "o", "d", "e", ".", "d", "e", "v", "/", "r", "e", "d", "i", "r", "e", "c", "t", "?", "u", "r", "l", "=", "v", "s", "c", "o", "d", "e", "%", "3", "A", "e", "x", "t", "e", "n", "s", "i", "o", "n", "%", "2", "F", "f", "o", "o", ".", "b", "a", "r">>
  /\ branch = "redirect" /\ location = <<"w", "i", "n", "d", "s", "u", "r", "f", ":", "e", "x", "t", "e", "n", "s", "i", "o", "n", "/", "f", "o", "o", ".", "b", "a", "r">>

\* The supported identifiers.
SupportedIdentifiers ==
  { <<"v", "s", "c", "o", "d", "e">>, <<"v", "s", "c", "o", "d", "e", "-", "i", "n", "s", "i", "d", "e", "r", "s">>, <<"a", "n", "t", "i", "g", "r", "a", "v", "i", "t", "y">>, <<"c", "u", "r", "s", "o", "r">>, <<"w", "i", "n", "d", "s", "u", "r", "f">> }

\* The stored value v as the content script is to take it.
TakenFrom(v) == IF v \in SupportedIdentifiers THEN v ELSE <<"a", "n", "t", "i", "g", "r", "a", "v", "i", "t", "y">>

C14_SingleTargetPerCycle ==
  (pc = "done" /\ branch = "extension" /\ location # NULL)
    => location = ExpectedExtensionUrl(entryTarget, ExtensionIdOf(href))

\* A link that is not a valid URL, or a dev-redirect link whose url parameter
\* is not valid percent-encoding.
IsMalformed(url) ==
  \/ ~ParseURL(url).ok
  \/ /\ isVSCodeDevRedirectUrl(url)
     /\ UrlParamOf(url) \notin {NULL, <<>>}
     /\ DecodeThrows(UrlParamOf(url))

\* C15 as stated: a malformed link is treated as unrecognized and the click
\* on it is left untouched.
C15_MalformedLeftUntouched ==
  (Clicked /\ IsMalformed(href)) => LeftUnchanged

\* C15 amended: on a link that cannot be parsed, isVsixUrl is false and
\* parseExtensionFromVsixUrl and convertVSCodeDevToProtocol are null, as is
\* convertVSCodeDevToProtocol on a url parameter that cannot be decoded, and
\* extractMcpServerName is null on what is no MCP link.  The click on a
\* malformed link is left untouched when the link does not start with an IDE
\* scheme or is handled as a dev-redirect; a malformed link with an IDE scheme
\* is still decided by the rules that read no parsed URL: as a plain-protocol
\* link of another scheme than the target it gets the target's prefix.
C15_MalformedNeverThrows ==
  (Clicked /\ IsMalformed(href))
    => /\ ~ParseURL(href).ok
            => /\ ~isVsixUrl(href)
               /\ ~parseExtensionFromVsixUrl(href).found
               /\ convertVSCodeDevToProtocol(href, entryTarget) = NULL
       /\ ParseURL(href).ok => convertVSCodeDevToProtocol(href, entryTarget) = NULL
       /\ ~IsMcpShape(href) => extractMcpServerName(href) = NULL
       /\ (~isVSCodeUrl(href) \/ branch = "redirect") => LeftUnchanged
       /\ branch \in {"redirect", "unrecognized", "extension", "mcp", "plain"}
       /\ (branch = "plain" /\ SchemeOf(href) # entryTarget)
            => (defaultPrevented /\ location = TargetPrefix(entryTarget) \o AfterColon(href))

C15_Witness ==
  /\ pc = "done" /\ href = <<"h", "t", "t", "p", "s", ":", "/", "/", "v", "s", "c", "o", "d", "e", ".", "d", "e", "v", "/", "r", "e", "d", "i", "r", "e", "c", "t", "?", "u", "r", "l", "=", "%", "2", "5">>
  /\ branch = "redirect" /\ LeftUnchanged

-----------------------------------------------------------------------------
\* Vocabulary of the claims about the registration helper.

\* The two locations a registration is looked up at.
PerUserLocation(protocol) ==
  <<"H", "K", "C", "U", ":", "\\", "S", "o", "f", "t", "w", "a", "r", "e", "\\", "C", "l", "a", "s", "s", "e", "s", "\\">> \o protocol \o <<"\\", "s", "h", "e", "l", "l", "\\", "o", "p", "e", "n", "\\", "c", "o", "m", "m", "a", "n", "d">>

ClassesRootLocation(protocol) ==
  <<"R", "e", "g", "i", "s", "t", "r", "y", ":", ":", "H", "K", "E", "Y", "_", "C", "L", "A", "S", "S", "E", "S", "_", "R", "O", "O", "T", "\\">> \o protocol \o <<"\\", "s", "h", "e", "l", "l", "\\", "o", "p", "e", "n", "\\", "c", "o", "m", "m", "a", "n", "d">>

\* A value is empty: there is none, or it has nothing but blanks.
IsBlank(v) == v = NULL \/ \A i \in 1..Len(v) : v[i] \in {" ", "\t", "\r", "\n"}

\* The i-th read of the call yielded a non-empty value: the location was
\* readable and holds one.
Yields(i) == ~reads[i].error /\ ~IsBlank(ValueAt(registry, reads[i].path))

\* The text between a leading quote and the next quote of a command, NULL
\* when the command has no such text.
QuotedHead(v) ==
  IF \E k \in 3..Len(v) : v[1] = "\"" /\ v[k] = "\"" /\ \A j \in 2..(k - 1) : v[j] # "\""
  THEN SubSeq(v, 2, (CHOOSE k \in 3..Len(v) :
                       v[1] = "\"" /\ v[k] = "\"" /\ \A j \in 2..(k - 1) : v[j] # "\"") - 1)
  ELSE NULL

CheckDone == regCall = "check" /\ regPc = "done"

\* C16: checkProtocolRegistration reads the per-user location first and the
\* classes root second, the second only when the first yielded nothing; it
\* returns registered=true with the value of the first location that yields
\* a non-empty one and the executable path parsed from that value, and
\* registered=false exactly when both locations were read and neither
\* yielded a value.
C16_LookupOrder ==
  regCall = "check" =>
    /\ Len(reads) <= 2
    /\ Len(reads) >= 1 => reads[1].path = PerUserLocation(regProtocol)
    /\ Len(reads) = 2 => reads[2].path = ClassesRootLocation(regProtocol) /\ ~Yields(1)
    /\ regPc = "done" =>
         /\ regResult.kind = "check"
         /\ ~regResult.ok <=> (Len(reads) = 2 /\ ~Yields(1) /\ ~Yields(2))
         /\ regResult.ok =>
              /\ Len(reads) >= 1
              /\ Yields(Len(reads))
              /\ regResult.registryValue = Trim(ValueAt(registry, reads[Len(reads)].path))
              /\ regResult.execPath = QuotedHead(regResult.registryValue)

\* The per-user location gave nothing and the classes root gave a quoted command.
C16_Witness ==
  /\ CheckDone
  /\ Len(reads) = 2
  /\ regResult.ok
  /\ regResult.execPath # NULL

RegisterDone == regCall = "register" /\ regPc = "done"

\* C17: registerProtocol returns success=true only if the three writes were
\* carried out successfully in the order description, 'URL Protocol' marker,
\* command, the command being "<execPath>" "--open-url" "--" "%1"; a failed
\* write gives success=false.
C17_SuccessMeansThreeWrites ==
  RegisterDone =>
    /\ regResult.ok =>
         /\ Len(writes) = 3
         /\ writes[1] = Write(<<"H", "K", "C", "U", ":", "\\", "S", "o", "f", "t", "w", "a", "r", "e", "\\", "C", "l", "a", "s", "s", "e", "s", "\\">> \o regProtocol, <<"(", "d", "e", "f", "a", "u", "l", "t", ")">>,
                              <<"U", "R", "L", ":">> \o regProtocol \o <<" ", "P", "r", "o", "t", "o", "c", "o", "l">>, TRUE)
         /\ writes[2] = Write(<<"H", "K", "C", "U", ":", "\\", "S", "o", "f", "t", "w", "a", "r", "e", "\\", "C", "l", "a", "s", "s", "e", "s", "\\">> \o regProtocol, <<"U", "R", "L", " ", "P", "r", "o", "t", "o", "c", "o", "l">>,
                              <<>>, TRUE)
         /\ writes[3] = Write(<<"H", "K", "C", "U", ":", "\\", "S", "o", "f", "t", "w", "a", "r", "e", "\\", "C", "l", "a", "s", "s", "e", "s", "\\">> \o regProtocol
                                \o <<"\\", "s", "h", "e", "l", "l", "\\", "o", "p", "e", "n", "\\", "c", "o", "m", "m", "a", "n", "d">>,
                              <<"(", "d", "e", "f", "a", "u", "l", "t", ")">>,
                              <<"\"">> \o regExecPath \o <<"\"", " ", "\"", "-", "-", "o", "p", "e", "n", "-", "u", "r", "l", "\"", " ", "\"", "-", "-", "\"", " ", "\"", "%", "1", "\"">>, TRUE)
    /\ (\E i \in 1..Len(writes) : ~writes[i].ok) => ~regResult.ok

AutoDone == regCall = "auto" /\ regPc = "done"

\* The lookup of the call found the protocol unregistered.
FoundUnregistered == Len(reads) = 2 /\ reads[1].value = NULL /\ reads[2].value = NULL

\* None of the candidate installation paths of the protocol exists; so it
\* is for a protocol without a candidate list.
NoInstallation ==
  \A i \in 1..Len(DEFAULT_IDE_PATHS(regProtocol)) : DEFAULT_IDE_PATHS(regProtocol)[i] \notin files

\* C18: autoRegisterProtocol, for a protocol that is not registered and has
\* no candidate installation path that exists, returns success=false with the
\* error 'Cannot find {protocol} installation', which is none of the errors
\* of a failed registry write, and issues no registry write.
C18_CannotFindReported ==
  (AutoDone /\ FoundUnregistered /\ NoInstallation) =>
    /\ regResult.kind = "auto"
    /\ ~regResult.ok
    /\ StartsWith(regResult.error, <<"C", "a", "n", "n", "o", "t", " ", "f", "i", "n", "d", " ">> \o regProtocol \o <<" ", "i", "n", "s", "t", "a", "l", "l", "a", "t", "i", "o", "n">>)
    /\ ~StartsWith(regResult.error, <<"F", "a", "i", "l", "e", "d", " ", "t", "o", " ", "s", "e", "t", " ">>)
    /\ writes = <<>>

\* C19: registerProtocol and autoRegisterProtocol resolve to a result
\* object and never reject; when the executable is missing or a registry
\* write failed the result is success=false with an error; no write is
\* issued twice within one call, and none after a failed description write.
C19_StructuredFailure ==
  /\ regResult.kind # "rejected"
  /\ \A i, j \in 1..Len(writes) :
       (writes[i].key = writes[j].key /\ writes[i].name = writes[j].name) => i = j
  /\ (Len(writes) >= 1 /\ ~writes[1].ok) => Len(writes) = 1
  /\ (regCall \in {"register", "auto"} /\ regPc = "done") =>
       /\ (regExecPath # NULL /\ regExecPath \notin files) =>
            (~regResult.ok /\ regResult.error # NULL)
       /\ (\E i \in 1..Len(writes) : ~writes[i].ok) =>
            (~regResult.ok /\ regResult.error # NULL)

-----------------------------------------------------------------------------
\* Vocabulary of the claim about the information parsed from a VSIX link.

\* The i-th part of a path, the parts being what the slashes separate after
\* the leading one; the empty string when the path has no such part.
PathPart(path, i) ==
  IF i + 1 <= Len(Split(path, "/")) THEN Split(path, "/")[i + 1] ELSE <<>>

PartCount(path) == Len(Split(path, "/")) - 1

\* .../publishers/{p}/vsextensions/{n}/{v}/vspackage on the marketplace.
IsMarketplacePackage(host, path) ==
  /\ host = <<"m", "a", "r", "k", "e", "t", "p", "l", "a", "c", "e", ".", "v", "i", "s", "u", "a", "l", "s", "t", "u", "d", "i", "o", ".", "c", "o", "m">>
  /\ PathPart(path, 5) # <<>> /\ PathPart(path, 7) # <<>> /\ PathPart(path, 8) # <<>>
  /\ path = <<"/", "_", "a", "p", "i", "s", "/", "p", "u", "b", "l", "i", "c", "/", "g", "a", "l", "l", "e", "r", "y", "/", "p", "u", "b", "l", "i", "s", "h", "e", "r", "s", "/">> \o PathPart(path, 5) \o <<"/", "v", "s", "e", "x", "t", "e", "n", "s", "i", "o", "n", "s", "/">>
              \o PathPart(path, 7) \o <<"/">> \o PathPart(path, 8) \o <<"/", "v", "s", "p", "a", "c", "k", "a", "g", "e">>

\* .../publisher/{p}/extension/{n}/{v}/assetbyname/{asset} on a gallery host.
IsVsAssetsAsset(host, path) ==
  /\ EndsWith(host, <<".", "g", "a", "l", "l", "e", "r", "y", ".", "v", "s", "a", "s", "s", "e", "t", "s", ".", "i", "o">>)
  /\ PathPart(path, 5) # <<>> /\ PathPart(path, 7) # <<>> /\ PathPart(path, 8) # <<>>
  /\ StartsWith(path, <<"/", "_", "a", "p", "i", "s", "/", "p", "u", "b", "l", "i", "c", "/", "g", "a", "l", "l", "e", "r", "y", "/", "p", "u", "b", "l", "i", "s", "h", "e", "r", "/">> \o PathPart(path, 5)
                        \o <<"/", "e", "x", "t", "e", "n", "s", "i", "o", "n", "/">> \o PathPart(path, 7) \o <<"/">> \o PathPart(path, 8)
                        \o <<"/", "a", "s", "s", "e", "t", "b", "y", "n", "a", "m", "e", "/">>)
  /\ PartCount(path) > 10 \/ PathPart(path, 10) # <<>>

\* /api/{p}/{n}/{v}/file or /api/{p}/{n}/{v}/file/{one part}, on any host.
IsOpenVsxFile(path) ==
  /\ PathPart(path, 2) # <<>> /\ PathPart(path, 3) # <<>> /\ PathPart(path, 4) # <<>>
  /\ \/ path = <<"/", "a", "p", "i", "/">> \o PathPart(path, 2) \o <<"/">> \o PathPart(path, 3) \o <<"/">>
                 \o PathPart(path, 4) \o <<"/", "f", "i", "l", "e">>
     \/ /\ PathPart(path, 6) # <<>>
        /\ path = <<"/", "a", "p", "i", "/">> \o PathPart(path, 2) \o <<"/">> \o PathPart(path, 3) \o <<"/">>
                    \o PathPart(path, 4) \o <<"/", "f", "i", "l", "e", "/">> \o PathPart(path, 6)

\* What precedes the extension of a filename {base}.vsix, the letters of the
\* extension in any case; empty for another filename.
FileBase(f) ==
  IF Len(f) > 5 /\ ToLowerCase(SubSeq(f, Len(f) - 4, Len(f))) = <<".", "v", "s", "i", "x">>
  THEN SubSeq(f, 1, Len(f) - 5) ELSE <<>>

\* The positions of a character after the first position.
InnerPositions(s, c) == { i \in 2..Len(s) : s[i] = c }

Largest(S) == CHOOSE i \in S : \A j \in S : j <= i

Smallest(S) == CHOOSE i \in S : \A j \in S : i <= j

\* A base is split at its last inner "-" into the name part and the version.
NamePartOf(b) ==
  IF InnerPositions(b, "-") = {} THEN b ELSE SubSeq(b, 1, Largest(InnerPositions(b, "-")) - 1)

VersionOf(b) ==
  IF InnerPositions(b, "-") = {} THEN <<>>
  ELSE SubSeq(b, Largest(InnerPositions(b, "-")) + 1, Len(b))

\* The information of a filename: the name part is split at its first ".",
\* unless it has none or begins with it. strict asks for a full triple.
FilenameInfo(np, version, strict) ==
  IF \/ np = <<>> \/ np[1] = "." \/ InnerPositions(np, ".") = {}
     \/ strict /\ (version = <<>> \/ Smallest(InnerPositions(np, ".")) = Len(np))
  THEN NoExtInfo
  ELSE ExtInfo(SubSeq(np, 1, Smallest(InnerPositions(np, ".")) - 1),
               SubSeq(np, Smallest(InnerPositions(np, ".")) + 1, Len(np)),
               IF version = <<>> THEN NULL ELSE version)

\* The information a VSIX link carries: that of the registry's path shape,
\* else that of the filename.
ExpectedInfo(host, path, strict) ==
  IF IsVsAssetsAsset(host, path) \/ IsMarketplacePackage(host, path)
    THEN ExtInfo(PathPart(path, 5), PathPart(path, 7), PathPart(path, 8))
  ELSE IF IsOpenVsxFile(path)
    THEN ExtInfo(PathPart(path, 2), PathPart(path, 3), PathPart(path, 4))
  ELSE FilenameInfo(NamePartOf(FileBase(PathPart(path, PartCount(path)))),
                    VersionOf(FileBase(PathPart(path, PartCount(path)))), strict)

ExpectedInfoOf(url, strict) ==
  ExpectedInfo(ToLowerCase(ParseURL(url).hostname), ParseURL(url).pathname, strict)

VsixClicked == Clicked /\ isVsixUrl(href)

\* C20 as stated: for a link that isVsixUrl accepts, parseExtensionFromVsixUrl
\* returns the publisher, name and version of the registry's path shape when
\* the link has one, else the full triple of a {publisher}.{name}-{version}.vsix
\* filename, and null when neither applies.
C20_TripleOrNull ==
  VsixClicked => parseExtensionFromVsixUrl(href) = ExpectedInfoOf(href, TRUE)

\* C20, amended: as above, except that the filename need not give a full
\* triple: the version is absent when the filename has no "-" after its
\* first character or nothing after its last "-", and the name is empty when
\* the name part ends with its first ".".
C20_ParsedInfo ==
  VsixClicked => parseExtensionFromVsixUrl(href) = ExpectedInfoOf(href, FALSE)

\* The marketplace link of ms-python.python 2024.1.0 was opened under
\* antigravity with the name and the version parsed from its path.
C20_Witness ==
  /\ VsixClicked
  /\ entryTarget = <<"a", "n", "t", "i", "g", "r", "a", "v", "i", "t", "y">>
  /\ href = <<"h", "t", "t", "p", "s", ":", "/", "/", "m", "a", "r", "k", "e", "t", "p", "l", "a", "c", "e", ".", "v", "i", "s", "u", "a", "l", "s", "t", "u", "d", "i", "o", ".", "c", "o", "m", "/", "_", "a", "p", "i", "s", "/", "p", "u", "b", "l", "i", "c", "/", "g", "a", "l", "l", "e", "r", "y", "/", "p", "u", "b", "l", "i", "s", "h", "e", "r", "s", "/", "m", "s", "-", "p", "y", "t", "h", "o", "n", "/", "v", "s", "e", "x", "t", "e", "n", "s", "i", "o", "n", "s", "/", "p", "y", "t", "h", "o", "n", "/", "2", "0", "2", "4", ".", "1", ".", "0", "/", "v", "s", "p", "a", "c", "k", "a", "g", "e">>
  /\ parseExtensionFromVsixUrl(href) = ExtInfo(<<"m", "s", "-", "p", "y", "t", "h", "o", "n">>, <<"p", "y", "t", "h", "o", "n">>, <<"2", "0", "2", "4", ".", "1", ".", "0">>)
  /\ location # NULL
  /\ EndsWith(location, <<"&", "n", "a", "m", "e", "=", "m", "s", "-", "p", "y", "t", "h", "o", "n", ".", "p", "y", "t", "h", "o", "n", "&", "v", "e", "r", "s", "i", "o", "n", "=", "2", "0", "2", "4", ".", "1", ".", "0">>)

-----------------------------------------------------------------------------
\* C21: when the url parameter of a dev-redirect link decodes to a URL that
\* already uses the scheme of the target protocol, convertVSCodeDevToProtocol
\* returns that inner URL unchanged, and the page navigates to it.
C21_InnerTargetSchemeUnchanged ==
  (Clicked /\ branch = "redirect" /\ HasInnerUrl(href)
     /\ SchemeOf(InnerUrlOf(href)) = entryTarget)
    => /\ convertVSCodeDevToProtocol(href, entryTarget) = InnerUrlOf(href)
       /\ location = InnerUrlOf(href)

\* The host of a link is vscode.dev or insiders.vscode.dev.
HostIsVSCodeDev(url) ==
  /\ ParseURL(url).ok
  /\ ToLowerCase(ParseURL(url).hostname) \in { <<"v", "s", "c", "o", "d", "e", ".", "d", "e", "v">>, <<"i", "n", "s", "i", "d", "e", "r", "s", ".", "v", "s", "c", "o", "d", "e", ".", "d", "e", "v">> }

\* C22: a link is handled as a dev-redirect only when its host is vscode.dev
\* or insiders.vscode.dev; the URL the page navigates to for it begins with
\* the prefix of the target or is an authentication callback of an IDE
\* protocol; an inner URL that has no IDE protocol is never navigated to.
C22_RedirectStaysInIde ==
  (Clicked /\ branch = "redirect") =>
    /\ HostIsVSCodeDev(href)
    /\ location # NULL =>
         \/ StartsWith(location, TargetPrefix(entryTarget))
         \/ isVSCodeUrl(location) /\ HasAuthenticationProvider(location)
    /\ (HasInnerUrl(href) /\ ~isVSCodeUrl(InnerUrlOf(href))) => location # InnerUrlOf(href)

\* targetProtocol and the value published in dataset.ideTargetProtocol are
\* the value of the store, or antigravity when that is absent or unsupported.
InSync == targetProtocol = TakenFrom(stored) /\ dataset = TakenFrom(stored)

\* C23: no selection written to the store is lost, whenever it was written:
\* when init completes after a get that did not fail, targetProtocol and the
\* published value are the value of the store (antigravity for an absent or
\* unsupported one), and every later write keeps them so.
C23_NoSelectionLost ==
  [][ /\ (initPc = "got" /\ getResult # REJECTED /\ initPc' = "ready") => InSync'
      /\ (initPc = "setDone" /\ initPc' = "ready") => InSync'
      /\ (initPc = "ready" /\ InSync) => InSync' ]_vars

\* The rest of an address: what follows "{scheme}://" in authority form and
\* "{scheme}:" in bare form.
RestOf(url) ==
  IF StartsWith(AfterColon(url), <<"/", "/">>) THEN Slice(AfterColon(url), 2) ELSE AfterColon(url)

\* C24: under the target antigravity a URL produced by prefix replacement, of
\* a clicked IDE link or of the inner URL of a dev-redirect link, is
\* antigravity:// followed by the rest of the source, whether the source has
\* the authority form or the bare form; antigravity://// followed by the rest
\* is never produced.
C24_AntigravityTwoSlashes ==
  (Clicked /\ entryTarget = <<"a", "n", "t", "i", "g", "r", "a", "v", "i", "t", "y">> /\ location # NULL) =>
    /\ branch = "plain" => location = <<"a", "n", "t", "i", "g", "r", "a", "v", "i", "t", "y", ":", "/", "/">> \o RestOf(href)
    /\ (/\ branch = "redirect" /\ HasInnerUrl(href)
        /\ isVSCodeUrl(InnerUrlOf(href)) /\ ~isAuthCallbackUrl(InnerUrlOf(href)))
         => location = <<"a", "n", "t", "i", "g", "r", "a", "v", "i", "t", "y", ":", "/", "/">> \o RestOf(InnerUrlOf(href))

====
